---- MODULE Spec2Model ----
(***************************************************************************)
(* The Postgres protocol engine of the database service                    *)
(* (src/lib/kube/proxy/resource_list.go, package postgres): one Engine     *)
(* serving one client connection.  InitializeConnection reads the first    *)
(* frame, HandleConnection authorizes, provisions, connects, makes the     *)
(* client ready and relays frames with two pumps.                          *)
(***************************************************************************)
EXTENDS Integers, Sequences, FiniteSets, TLC

VARIABLES
    pc,           \* position of InitializeConnection / HandleConnection
    ret,          \* value HandleConnection (or InitializeConnection) returned
    defers,       \* HandleConnection's stack of deferred calls, top last
    sessionCtx,   \* *common.Session
    cancelReq,    \* Engine.cancelReq
    hijackedConn, \* *pgconn.HijackedConn returned by connect
    backend,      \* state of the connection to the database
    lease,        \* the auto-user lease returned by Activate
    calls,        \* collaborator calls made by HandleConnection, in order
    audit,        \* events handed to e.Audit, in order
    toClient,     \* frames written to the client connection, in order
    toServer,     \* frames written to the database connection, in order
    fromClient,   \* frames the client pump has read, in order
    fromServer,   \* frames the server pump has read, in order
    clientErrCh,  \* chan error, capacity 1
    serverErrCh,  \* chan error, capacity 1
    cpc,          \* position of receiveFromClient
    cmsg,         \* receiveFromClient's local "message"
    spc,          \* position of receiveFromServer
    smsg,         \* receiveFromServer's local "message"
    serr,         \* receiveFromServer's local "err"
    cerr,         \* receiveFromClient's local "err"
    ctxDone,      \* HandleConnection saw ctx.Done() closed
    accessErr,    \* what checkAccess returned to HandleConnection (line 294)
    cancelRead,   \* what tlsConn.Read returned in handleCancelRequest
    startupFrame, \* what client.ReceiveStartupMessage returned (line 369)
    config,       \* the *pgconn.Config getConnectConfig returned
    engines,      \* the engines sharing the provisioning budget (305-323)
    cloud         \* what the calls made by connect return (433-455, 622-694)

vars == <<pc, ret, defers, sessionCtx, cancelReq, hijackedConn, backend, lease,
          calls, audit, toClient, toServer, fromClient, fromServer,
          clientErrCh, serverErrCh, cpc, cmsg, spc, smsg, serr, cerr,
          ctxDone, accessErr, cancelRead, startupFrame, config, engines,
          cloud>>

(***************************************************************************)
(* Bounds of the model.                                                    *)
(***************************************************************************)
\* Frames the two pumps read from the wire, in total, in a full run of one
\* connection.
MaxFrames == 2

\* Frames the two pumps read from the wire, in total, when only the relay
\* phase is explored.
MaxRelayFrames == 3

(***************************************************************************)
(* Errors.                                                                 *)
(***************************************************************************)
\* An error value: what failed, and whether it went through
\* common.ConvertConnectError and trace.Wrap.
Err(kind) == [kind |-> kind, converted |-> FALSE, wrapped |-> FALSE]

nil == Err("nil")

EOF == Err("EOF")

\* trace.Wrap: nil stays nil, any other error keeps its cause.
Wrap(err) == IF err = nil THEN nil ELSE [err EXCEPT !.wrapped = TRUE]

\* trace.AccessDenied / trace.BadParameter / trace.Errorf build wrapped errors.
NewTraceErr(kind) == [Err(kind) EXCEPT !.wrapped = TRUE]

\* common.ConvertConnectError: the backend-specific classification of a
\* connect error.
ConvertConnectError(err) ==
    IF err = nil THEN nil ELSE [err EXCEPT !.converted = TRUE, !.wrapped = TRUE]

(***************************************************************************)
(* Values of the environment.                                              *)
(***************************************************************************)
NoValue == [none |-> TRUE]

EmptyMap == [k \in {} |-> ""]

\* sessionCtx.Identity.Username, set by the service before the engine runs.
TeleportUser == "alice"

\* Startup messages a client may send (StartupMessage.Parameters).
StartupMessages ==
    { [k \in {"database", "user"} |-> IF k = "database" THEN "app" ELSE "bob"],
      [k \in {"database", "user", "application_name"} |->
          IF k = "database" THEN "app"
          ELSE IF k = "user" THEN "alice" ELSE "psql"] }

\* Cancel requests a client may send.
CancelRequests ==
    { [type |-> "CancelRequest", ProcessID |-> 42, SecretKey |-> 99],
      [type |-> "CancelRequest", ProcessID |-> 7, SecretKey |-> 8] }

\* What the database reports once pgconn has connected.
HijackedConns ==
    { [PID |-> 7, SecretKey |-> 8, ParameterStatuses |-> ps] :
        ps \in { EmptyMap,
                 [k \in {"server_version", "client_encoding"} |->
                     IF k = "server_version" THEN "15" ELSE "UTF8"] } }

\* The orders in which Go may range over a map with keys S.
Perms(S) ==
    { s \in [1..Cardinality(S) -> S] :
        \A i, j \in 1..Cardinality(S) : i # j => s[i] # s[j] }

\* The session as the service constructs it, before the startup frame.
NewSession(auto) ==
    [ Identity          |-> [Username |-> TeleportUser],
      AutoCreateUser    |-> auto,
      DatabaseName      |-> "",
      DatabaseUser      |-> "",
      StartupParameters |-> EmptyMap ]

(***************************************************************************)
(* Audit events.                                                           *)
(***************************************************************************)
SessionStartEvent(err) == [kind |-> "session.start", err |-> err]

SessionEndEvent == [kind |-> "session.end"]

(***************************************************************************)
(* Returning from HandleConnection: the deferred calls run next.           *)
(***************************************************************************)
Return(err, ds) ==
    /\ ret' = err
    /\ defers' = ds
    /\ pc' = IF ds = <<>> THEN "done" ELSE "deferring"

Init ==
    /\ pc = "Created"
    /\ ret = NoValue
    /\ defers = <<>>
    /\ sessionCtx \in { NewSession(auto) : auto \in BOOLEAN }
    /\ cancelReq = NoValue
    /\ hijackedConn = NoValue
    /\ backend = "none"
    /\ lease = "none"
    /\ calls = <<>>
    /\ audit = <<>>
    /\ toClient = <<>>
    /\ toServer = <<>>
    /\ fromClient = <<>>
    /\ fromServer = <<>>
    /\ clientErrCh = <<>>
    /\ serverErrCh = <<>>
    /\ cpc = "idle"
    /\ cmsg = NoValue
    /\ spc = "idle"
    /\ smsg = NoValue
    /\ serr = nil
    /\ cerr = nil
    /\ ctxDone = FALSE
    /\ accessErr = NoValue
    /\ cancelRead = NoValue
    /\ startupFrame = NoValue
    /\ config = NoValue
    /\ engines = <<>>
    /\ cloud = NoValue


(***************************************************************************)
(* InitializeConnection and handleStartup.                                 *)
(***************************************************************************)
\* What client.ReceiveStartupMessage can return: a read or decode error, a
\* startup message, a cancel request, or another startup-phase frame.
StartupFrames ==
    { [type |-> "StartupMessage", Parameters |-> p] : p \in StartupMessages }
    \cup CancelRequests
    \cup { [type |-> "SSLRequest"], [type |-> "GSSEncRequest"] }

\* handleStartup with every key, "database" and "user" included, also
\* copied to the startup parameters.
handleStartup_KeepsAll(s, c, recvErr, m) ==
    IF recvErr # nil
    THEN [err |-> Wrap(recvErr), sessionCtx |-> s, cancelReq |-> c]
    ELSE IF m.type = "StartupMessage"
    THEN LET P == m.Parameters
         IN [ err |-> nil,
              cancelReq |-> c,
              sessionCtx |->
                [ s EXCEPT
                    !.DatabaseName =
                        IF "database" \in DOMAIN P THEN P["database"] ELSE @,
                    !.DatabaseUser =
                        IF "user" \in DOMAIN P THEN P["user"] ELSE @,
                    !.StartupParameters =
                        [k \in DOMAIN @ \cup DOMAIN P |->
                            IF k \in DOMAIN P THEN P[k] ELSE @[k]] ] ]
    ELSE IF m.type = "CancelRequest"
    THEN [err |-> nil, sessionCtx |-> s, cancelReq |-> m]
    ELSE [err |-> NewTraceErr("BadParameter"), sessionCtx |-> s,
          cancelReq |-> c]

\* handleStartup without the default case of the type switch.
handleStartup_AcceptsAny(s, c, recvErr, m) ==
    IF recvErr # nil
    THEN [err |-> Wrap(recvErr), sessionCtx |-> s, cancelReq |-> c]
    ELSE IF m.type = "StartupMessage"
    THEN LET P == m.Parameters
             kept == DOMAIN P \ {"database", "user"}
         IN [ err |-> nil,
              cancelReq |-> c,
              sessionCtx |->
                [ s EXCEPT
                    !.DatabaseName =
                        IF "database" \in DOMAIN P THEN P["database"] ELSE @,
                    !.DatabaseUser =
                        IF "user" \in DOMAIN P THEN P["user"] ELSE @,
                    !.StartupParameters =
                        [k \in DOMAIN @ \cup kept |->
                            IF k \in kept THEN P[k] ELSE @[k]] ] ]
    ELSE IF m.type = "CancelRequest"
    THEN [err |-> nil, sessionCtx |-> s, cancelReq |-> m]
    ELSE [err |-> nil, sessionCtx |-> s, cancelReq |-> c]

\* handleStartup without the assignment of line 391.
handleStartup_CancelNotRecorded(s, c, recvErr, m) ==
    IF recvErr # nil
    THEN [err |-> Wrap(recvErr), sessionCtx |-> s, cancelReq |-> c]
    ELSE IF m.type = "StartupMessage"
    THEN LET P == m.Parameters
             kept == DOMAIN P \ {"database", "user"}
         IN [ err |-> nil,
              cancelReq |-> c,
              sessionCtx |->
                [ s EXCEPT
                    !.DatabaseName =
                        IF "database" \in DOMAIN P THEN P["database"] ELSE @,
                    !.DatabaseUser =
                        IF "user" \in DOMAIN P THEN P["user"] ELSE @,
                    !.StartupParameters =
                        [k \in DOMAIN @ \cup kept |->
                            IF k \in kept THEN P[k] ELSE @[k]] ] ]
    ELSE IF m.type = "CancelRequest"
    THEN [err |-> nil, sessionCtx |-> s, cancelReq |-> c]
    ELSE [err |-> NewTraceErr("BadParameter"), sessionCtx |-> s,
          cancelReq |-> c]

\* handleStartup: the session and cancel request after the first frame.
handleStartup(s, c, recvErr, m) ==
    IF recvErr # nil
    THEN [err |-> Wrap(recvErr), sessionCtx |-> s, cancelReq |-> c]
    ELSE IF m.type = "StartupMessage"
    THEN LET P == m.Parameters
             kept == DOMAIN P \ {"database", "user"}
         IN [ err |-> nil,
              cancelReq |-> c,
              sessionCtx |->
                [ s EXCEPT
                    !.DatabaseName =
                        IF "database" \in DOMAIN P THEN P["database"] ELSE @,
                    !.DatabaseUser =
                        IF "user" \in DOMAIN P THEN P["user"] ELSE @,
                    !.StartupParameters =
                        [k \in DOMAIN @ \cup kept |->
                            IF k \in kept THEN P[k] ELSE @[k]] ] ]
    ELSE IF m.type = "CancelRequest"
    THEN [err |-> nil, sessionCtx |-> s, cancelReq |-> m]
    ELSE [err |-> NewTraceErr("BadParameter"), sessionCtx |-> s,
          cancelReq |-> c]

InitializeConnection(frames) ==
    /\ pc = "Created"
    /\ \E recvErr \in {nil, Err("read")}, m \in frames :
         LET r == handleStartup(sessionCtx, cancelReq, recvErr, m) IN
         /\ startupFrame' = IF recvErr # nil THEN NoValue ELSE m
         /\ sessionCtx' = r.sessionCtx
         /\ cancelReq' = r.cancelReq
         /\ IF r.err # nil
            THEN pc' = "initFailed" /\ ret' = Wrap(r.err)
            ELSE pc' = "checkAccess" /\ ret' = ret
    /\ UNCHANGED <<defers, hijackedConn, backend, lease, calls, audit,
                   toClient, toServer, fromClient, fromServer, clientErrCh,
                   serverErrCh, cpc, cmsg, spc, smsg, serr, ctxDone,
                   cerr, accessErr, cancelRead>>
    /\ UNCHANGED <<config, engines, cloud>>

(***************************************************************************)
(* checkAccess.                                                            *)
(***************************************************************************)
\* checkAccess with OnSessionStart called before, not inside, the test of
\* CheckAccess's error.
checkAccess_AuditAlways(s, authPrefErr, checkErr) ==
    IF s.AutoCreateUser /\ s.DatabaseUser # s.Identity.Username
    THEN [err |-> NewTraceErr("AccessDenied: use your Teleport username"),
          calls |-> <<>>, audit |-> <<>>]
    ELSE IF authPrefErr # nil
    THEN [err |-> Wrap(authPrefErr),
          calls |-> <<"GetAuthPreference">>, audit |-> <<>>]
    ELSE [err |-> Wrap(checkErr),
          calls |-> <<"GetAuthPreference", "CheckAccess">>,
          audit |-> <<SessionStartEvent(checkErr)>>]

\* checkAccess without the OnSessionStart call on a denial.
checkAccess_NoAudit(s, authPrefErr, checkErr) ==
    IF s.AutoCreateUser /\ s.DatabaseUser # s.Identity.Username
    THEN [err |-> NewTraceErr("AccessDenied: use your Teleport username"),
          calls |-> <<>>, audit |-> <<>>]
    ELSE IF authPrefErr # nil
    THEN [err |-> Wrap(authPrefErr),
          calls |-> <<"GetAuthPreference">>, audit |-> <<>>]
    ELSE [err |-> Wrap(checkErr),
          calls |-> <<"GetAuthPreference", "CheckAccess">>, audit |-> <<>>]

\* checkAccess without the test of the database user name
\* (lines 402-407).
checkAccess_NoUserCheck(s, authPrefErr, checkErr) ==
    IF authPrefErr # nil
    THEN [err |-> Wrap(authPrefErr),
          calls |-> <<"GetAuthPreference">>, audit |-> <<>>]
    ELSE IF checkErr # nil
    THEN [err |-> Wrap(checkErr),
          calls |-> <<"GetAuthPreference", "CheckAccess">>,
          audit |-> <<SessionStartEvent(checkErr)>>]
    ELSE [err |-> nil,
          calls |-> <<"GetAuthPreference", "CheckAccess">>, audit |-> <<>>]

\* checkAccess: its error, the collaborators it called and the audit events
\* it emitted, given the answers of GetAuthPreference and CheckAccess.
checkAccess(s, authPrefErr, checkErr) ==
    IF s.AutoCreateUser /\ s.DatabaseUser # s.Identity.Username
    THEN [err |-> NewTraceErr("AccessDenied: use your Teleport username"),
          calls |-> <<>>, audit |-> <<>>]
    ELSE IF authPrefErr # nil
    THEN [err |-> Wrap(authPrefErr),
          calls |-> <<"GetAuthPreference">>, audit |-> <<>>]
    ELSE IF checkErr # nil
    THEN [err |-> Wrap(checkErr),
          calls |-> <<"GetAuthPreference", "CheckAccess">>,
          audit |-> <<SessionStartEvent(checkErr)>>]
    ELSE [err |-> nil,
          calls |-> <<"GetAuthPreference", "CheckAccess">>, audit |-> <<>>]

\* Lines 294-297 with the error of checkAccess dropped.
HC_CheckAccess_IgnoreErr ==
    /\ pc = "checkAccess"
    /\ \E authPrefErr \in {nil, Err("GetAuthPreference")},
          checkErr \in {nil, NewTraceErr("AccessDenied")} :
         LET r == checkAccess(sessionCtx, authPrefErr, checkErr) IN
         /\ calls' = calls \o r.calls
         /\ audit' = audit \o r.audit
         /\ accessErr' = r.err
         /\ pc' = "accessOk"
    /\ UNCHANGED <<ret, defers, sessionCtx, cancelReq, hijackedConn, backend,
                   lease, toClient, toServer, fromClient, fromServer,
                   clientErrCh, serverErrCh, cpc, cmsg, spc, smsg, serr,
                   ctxDone, cerr, cancelRead>>
    /\ UNCHANGED <<startupFrame, config, engines, cloud>>

\* HandleConnection, lines 294-297.
HC_CheckAccess ==
    /\ pc = "checkAccess"
    /\ \E authPrefErr \in {nil, Err("GetAuthPreference")},
          checkErr \in {nil, NewTraceErr("AccessDenied")} :
         LET r == checkAccess(sessionCtx, authPrefErr, checkErr) IN
         /\ calls' = calls \o r.calls
         /\ audit' = audit \o r.audit
         /\ accessErr' = r.err
         /\ IF r.err # nil
            THEN Return(Wrap(r.err), defers)
            ELSE pc' = "accessOk" /\ UNCHANGED <<ret, defers>>
    /\ UNCHANGED <<sessionCtx, cancelReq, hijackedConn, backend, lease,
                   toClient, toServer, fromClient, fromServer, clientErrCh,
                   serverErrCh, cpc, cmsg, spc, smsg, serr, ctxDone,
                   cerr, cancelRead>>
    /\ UNCHANGED <<startupFrame, config, engines, cloud>>

(***************************************************************************)
(* The cancel request path.                                                *)
(***************************************************************************)
\* startPGWireTLS: sends an SSLRequest and reads the one-byte answer.
\* resp is the byte read, or "err" when the read fails.
startPGWireTLS(sendErr, resp) ==
    IF sendErr # nil
    THEN [err |-> Wrap(sendErr), sent |-> <<>>]
    ELSE IF resp = "err"
    THEN [err |-> Wrap(Err("read")), sent |-> <<[type |-> "SSLRequest"]>>]
    ELSE IF resp # "S"
    THEN [err |-> NewTraceErr("server refused TLS connection"),
          sent |-> <<[type |-> "SSLRequest"]>>]
    ELSE [err |-> nil, sent |-> <<[type |-> "SSLRequest"]>>]

\* What tlsConn.Read(response) can yield after the cancel frame was sent.
CancelReads ==
    { [n |-> 0, err |-> EOF], [n |-> 1, err |-> nil],
      [n |-> 0, err |-> Err("read")] }

\* handleCancelRequest sending the cancel frame on the plain connection,
\* with no SSL request before it.
handleCancelRequest_NoTLS(req, env) ==
    IF env.parseErr # nil
    THEN [err |-> Wrap(env.parseErr), calls |-> <<"ParseConfig">>,
          sent |-> <<>>, backend |-> "none", read |-> NoValue]
    ELSE IF env.tlsErr # nil
    THEN [err |-> Wrap(env.tlsErr), calls |-> <<"ParseConfig", "GetTLSConfig">>,
          sent |-> <<>>, backend |-> "none", read |-> NoValue]
    ELSE IF env.dialErr # nil
    THEN [err |-> ConvertConnectError(env.dialErr),
          calls |-> <<"ParseConfig", "GetTLSConfig", "DialContext">>,
          sent |-> <<>>, backend |-> "none", read |-> NoValue]
    ELSE LET cs == <<"ParseConfig", "GetTLSConfig", "DialContext">>
         IN IF env.cancelSendErr # nil
            THEN [err |-> Wrap(env.cancelSendErr), calls |-> cs,
                  sent |-> <<>>, backend |-> "open", read |-> NoValue]
            ELSE IF env.read.err # EOF
            THEN [err |-> Wrap(env.read.err), calls |-> cs,
                  sent |-> <<req>>, backend |-> "open", read |-> env.read]
            ELSE [err |-> nil, calls |-> cs,
                  sent |-> <<req>>, backend |-> "open", read |-> env.read]

\* handleCancelRequest: env holds the outcome of each call it makes.
handleCancelRequest(req, env) ==
    IF env.parseErr # nil
    THEN [err |-> Wrap(env.parseErr), calls |-> <<"ParseConfig">>,
          sent |-> <<>>, backend |-> "none", read |-> NoValue]
    ELSE IF env.tlsErr # nil
    THEN [err |-> Wrap(env.tlsErr), calls |-> <<"ParseConfig", "GetTLSConfig">>,
          sent |-> <<>>, backend |-> "none", read |-> NoValue]
    ELSE IF env.dialErr # nil
    THEN [err |-> ConvertConnectError(env.dialErr),
          calls |-> <<"ParseConfig", "GetTLSConfig", "DialContext">>,
          sent |-> <<>>, backend |-> "none", read |-> NoValue]
    ELSE LET tls == startPGWireTLS(env.sslSendErr, env.sslResp)
             cs == <<"ParseConfig", "GetTLSConfig", "DialContext">>
         IN IF tls.err # nil
            THEN [err |-> ConvertConnectError(tls.err), calls |-> cs,
                  sent |-> tls.sent, backend |-> "open", read |-> NoValue]
            ELSE IF env.cancelSendErr # nil
            THEN [err |-> Wrap(env.cancelSendErr), calls |-> cs,
                  sent |-> tls.sent, backend |-> "open", read |-> NoValue]
            ELSE IF env.read.err # EOF
            THEN [err |-> Wrap(env.read.err), calls |-> cs,
                  sent |-> tls.sent \o <<req>>, backend |-> "open",
                  read |-> env.read]
            ELSE [err |-> nil, calls |-> cs,
                  sent |-> tls.sent \o <<req>>, backend |-> "open",
                  read |-> env.read]

CancelEnvs ==
    [ parseErr : {nil, Err("ParseConfig")},
      tlsErr : {nil, Err("GetTLSConfig")},
      dialErr : {nil, Err("dial")},
      sslSendErr : {nil, Err("write")},
      sslResp : {"S", "N", "err"},
      cancelSendErr : {nil, Err("write")},
      read : CancelReads ]

\* HandleConnection, lines 298-304.
HC_CancelRequest ==
    /\ pc = "accessOk"
    /\ cancelReq # NoValue
    /\ \E env \in CancelEnvs :
         LET r == handleCancelRequest(cancelReq, env) IN
         /\ calls' = calls \o r.calls
         /\ toServer' = toServer \o r.sent
         /\ backend' = r.backend
         /\ cancelRead' = r.read
         /\ Return(Wrap(r.err), defers)
    /\ UNCHANGED <<sessionCtx, cancelReq, hijackedConn, lease, audit,
                   toClient, fromClient, fromServer, clientErrCh,
                   serverErrCh, cpc, cmsg, spc, smsg, serr, ctxDone,
                   cerr, accessErr>>
    /\ UNCHANGED <<startupFrame, config, engines, cloud>>


(***************************************************************************)
(* The normal path up to the relay.                                        *)
(***************************************************************************)
\* Lines 305-315 without the deferred Deactivate.
HC_Activate_NoDefer ==
    /\ pc = "accessOk"
    /\ cancelReq = NoValue
    /\ calls' = Append(calls, "Activate")
    /\ \E err \in {nil, Err("Activate")} :
         IF err # nil
         THEN Return(Wrap(err), defers) /\ lease' = lease
         ELSE /\ lease' = "held"
              /\ pc' = "connect"
              /\ UNCHANGED <<ret, defers>>
    /\ UNCHANGED <<sessionCtx, cancelReq, hijackedConn, backend, audit,
                   toClient, toServer, fromClient, fromServer, clientErrCh,
                   serverErrCh, cpc, cmsg, spc, smsg, serr, ctxDone, cerr,
                   accessErr, cancelRead>>
    /\ UNCHANGED <<startupFrame, config, engines, cloud>>

\* Lines 305-315 going on to connect when Activate returned an error.
HC_Activate_IgnoresErr ==
    /\ pc = "accessOk"
    /\ cancelReq = NoValue
    /\ calls' = Append(calls, "Activate")
    /\ \E err \in {nil, Err("Activate")} :
         IF err # nil
         THEN /\ lease' = lease
              /\ pc' = "connect"
              /\ UNCHANGED <<ret, defers>>
         ELSE /\ lease' = "held"
              /\ defers' = Append(defers, "Deactivate")
              /\ pc' = "connect"
              /\ ret' = ret
    /\ UNCHANGED <<sessionCtx, cancelReq, hijackedConn, backend, audit,
                   toClient, toServer, fromClient, fromServer, clientErrCh,
                   serverErrCh, cpc, cmsg, spc, smsg, serr, ctxDone, cerr,
                   accessErr, cancelRead, startupFrame, config,
                   engines, cloud>>

\* Lines 305-315 placed in front of the cancel-request branch.
HC_Activate_OnCancelPath ==
    /\ pc = "accessOk"
    /\ calls' = Append(calls, "Activate")
    /\ \E err \in {nil, Err("Activate")} :
         IF err # nil
         THEN Return(Wrap(err), defers) /\ lease' = lease
         ELSE /\ lease' = "held"
              /\ defers' = Append(defers, "Deactivate")
              /\ pc' = "connect"
              /\ ret' = ret
    /\ UNCHANGED <<sessionCtx, cancelReq, hijackedConn, backend, audit,
                   toClient, toServer, fromClient, fromServer, clientErrCh,
                   serverErrCh, cpc, cmsg, spc, smsg, serr, ctxDone,
                   cerr, accessErr, cancelRead, startupFrame, config,
                   engines, cloud>>

\* HandleConnection, lines 305-315: Activate, and the deferred Deactivate.
HC_Activate ==
    /\ pc = "accessOk"
    /\ cancelReq = NoValue
    /\ calls' = Append(calls, "Activate")
    /\ \E err \in {nil, Err("Activate")} :
         IF err # nil
         THEN Return(Wrap(err), defers) /\ lease' = lease
         ELSE /\ lease' = "held"
              /\ defers' = Append(defers, "Deactivate")
              /\ pc' = "connect"
              /\ ret' = ret
    /\ UNCHANGED <<sessionCtx, cancelReq, hijackedConn, backend, audit,
                   toClient, toServer, fromClient, fromServer, clientErrCh,
                   serverErrCh, cpc, cmsg, spc, smsg, serr, ctxDone,
                   cerr, accessErr, cancelRead>>
    /\ UNCHANGED <<startupFrame, config, engines, cloud>>

\* getConnectConfig, lines 636-643: what the config replays to the database
\* from the session.
getConnectConfig(s) ==
    [ User          |-> s.DatabaseUser,
      Database      |-> s.DatabaseName,
      Fallbacks     |-> <<>>,
      RuntimeParams |-> s.StartupParameters ]

\* connect returning the error of pgconn.ConnectConfig wrapped only.
connect_RawConnectError(env) ==
    IF env.configErr # nil
    THEN [err |-> Wrap(env.configErr), calls |-> <<"getConnectConfig">>,
          hijackedConn |-> NoValue, backend |-> "none"]
    ELSE IF env.connectErr # nil
    THEN [err |-> Wrap(env.connectErr),
          calls |-> <<"getConnectConfig", "ConnectConfig">>,
          hijackedConn |-> NoValue, backend |-> "none"]
    ELSE IF env.hijackErr # nil
    THEN [err |-> Wrap(env.hijackErr),
          calls |-> <<"getConnectConfig", "ConnectConfig">>,
          hijackedConn |-> NoValue, backend |-> "open"]
    ELSE [err |-> nil, calls |-> <<"getConnectConfig", "ConnectConfig">>,
          hijackedConn |-> env.conn, backend |-> "open"]

\* connect: env holds the outcome of getConnectConfig, pgconn.ConnectConfig
\* and conn.Hijack.
connect(env) ==
    IF env.configErr # nil
    THEN [err |-> Wrap(env.configErr), calls |-> <<"getConnectConfig">>,
          hijackedConn |-> NoValue, backend |-> "none"]
    ELSE IF env.connectErr # nil
    THEN [err |-> ConvertConnectError(env.connectErr),
          calls |-> <<"getConnectConfig", "ConnectConfig">>,
          hijackedConn |-> NoValue, backend |-> "none"]
    ELSE IF env.hijackErr # nil
    THEN [err |-> Wrap(env.hijackErr),
          calls |-> <<"getConnectConfig", "ConnectConfig">>,
          hijackedConn |-> NoValue, backend |-> "open"]
    ELSE [err |-> nil, calls |-> <<"getConnectConfig", "ConnectConfig">>,
          hijackedConn |-> env.conn, backend |-> "open"]

ConnectEnvs ==
    [ configErr : {nil, Err("getConnectConfig")},
      connectErr : {nil, Err("connect")},
      hijackErr : {nil, Err("Hijack")},
      conn : HijackedConns ]

\* Lines 316-323 without the cancelAutoUserLease call of the error branch.
HC_Connect_LeaseKeptOnError ==
    /\ pc = "connect"
    /\ \E env \in ConnectEnvs :
         LET r == connect(env) IN
         /\ hijackedConn' = r.hijackedConn
         /\ config' = IF env.configErr = nil
                      THEN getConnectConfig(sessionCtx) ELSE config
         /\ backend' = r.backend
         /\ IF r.err # nil
            THEN /\ Return(Wrap(r.err), defers)
                 /\ calls' = calls \o r.calls
                 /\ lease' = lease
            ELSE /\ pc' = "makeClientReady"
                 /\ calls' = (calls \o r.calls) \o <<"cancelAutoUserLease">>
                 /\ lease' = "released"
                 /\ UNCHANGED <<ret, defers>>
    /\ UNCHANGED <<sessionCtx, cancelReq, audit, toClient, toServer,
                   fromClient, fromServer, clientErrCh, serverErrCh, cpc,
                   cmsg, spc, smsg, serr, ctxDone, cerr, accessErr,
                   cancelRead>>
    /\ UNCHANGED <<startupFrame, engines, cloud>>

\* Lines 316-323 with a connect that rewrites the session's database user.
HC_Connect_RewritesUser ==
    /\ pc = "connect"
    /\ \E env \in ConnectEnvs :
         LET r == connect(env) IN
         /\ calls' = (calls \o r.calls) \o <<"cancelAutoUserLease">>
         /\ lease' = "released"
         /\ hijackedConn' = r.hijackedConn
         /\ config' = IF env.configErr = nil
                      THEN getConnectConfig(sessionCtx) ELSE config
         /\ backend' = r.backend
         /\ IF r.err # nil
            THEN Return(Wrap(r.err), defers)
            ELSE pc' = "makeClientReady" /\ UNCHANGED <<ret, defers>>
    /\ sessionCtx' = [sessionCtx EXCEPT !.DatabaseUser = "postgres"]
    /\ UNCHANGED <<cancelReq, audit, toClient, toServer,
                   fromClient, fromServer, clientErrCh, serverErrCh, cpc,
                   cmsg, spc, smsg, serr, ctxDone,
                   cerr, accessErr, cancelRead, startupFrame, engines,
                   cloud>>

\* Lines 316-323 with the failure of connect reported to the audit log.
HC_Connect_AuditsFailure ==
    /\ pc = "connect"
    /\ \E env \in ConnectEnvs :
         LET r == connect(env) IN
         /\ calls' = (calls \o r.calls) \o <<"cancelAutoUserLease">>
         /\ lease' = "released"
         /\ hijackedConn' = r.hijackedConn
         /\ config' = IF env.configErr = nil
                      THEN getConnectConfig(sessionCtx) ELSE config
         /\ backend' = r.backend
         /\ IF r.err # nil
            THEN /\ Return(Wrap(r.err), defers)
                 /\ audit' = Append(audit, SessionStartEvent(Wrap(r.err)))
            ELSE /\ pc' = "makeClientReady"
                 /\ UNCHANGED <<ret, defers, audit>>
    /\ UNCHANGED <<sessionCtx, cancelReq, toClient, toServer,
                   fromClient, fromServer, clientErrCh, serverErrCh, cpc,
                   cmsg, spc, smsg, serr, ctxDone, cerr, accessErr,
                   cancelRead, startupFrame, engines, cloud>>

\* HandleConnection, lines 316-323: connect, then release the lease.
HC_Connect ==
    /\ pc = "connect"
    /\ \E env \in ConnectEnvs :
         LET r == connect(env) IN
         /\ calls' = (calls \o r.calls) \o <<"cancelAutoUserLease">>
         /\ lease' = "released"
         /\ hijackedConn' = r.hijackedConn
         /\ config' = IF env.configErr = nil
                      THEN getConnectConfig(sessionCtx) ELSE config
         /\ backend' = r.backend
         /\ IF r.err # nil
            THEN Return(Wrap(r.err), defers)
            ELSE pc' = "makeClientReady" /\ UNCHANGED <<ret, defers>>
    /\ UNCHANGED <<sessionCtx, cancelReq, audit, toClient, toServer,
                   fromClient, fromServer, clientErrCh, serverErrCh, cpc,
                   cmsg, spc, smsg, serr, ctxDone,
                   cerr, accessErr, cancelRead>>
    /\ UNCHANGED <<startupFrame, engines, cloud>>

\* makeClientReady with ReadyForQuery sent before the parameter statuses.
makeClientReady_ReadyFirst(hc, order) ==
    <<[type |-> "AuthenticationOk"],
      [type |-> "BackendKeyData", ProcessID |-> hc.PID,
       SecretKey |-> hc.SecretKey],
      [type |-> "ReadyForQuery", TxStatus |-> "I"]>>
    \o [i \in 1..Len(order) |->
          [type |-> "ParameterStatus", Name |-> order[i],
           Value |-> hc.ParameterStatuses[order[i]]]]

\* The frames makeClientReady sends, when it ranges over the parameter
\* statuses in the given order.
makeClientReady(hc, order) ==
    <<[type |-> "AuthenticationOk"],
      [type |-> "BackendKeyData", ProcessID |-> hc.PID,
       SecretKey |-> hc.SecretKey]>>
    \o [i \in 1..Len(order) |->
          [type |-> "ParameterStatus", Name |-> order[i],
           Value |-> hc.ParameterStatuses[order[i]]]]
    \o <<[type |-> "ReadyForQuery", TxStatus |-> "I"]>>

\* Lines 324-329 going on to the session start when a send failed.
HC_MakeClientReady_IgnoresErr ==
    /\ pc = "makeClientReady"
    /\ \E order \in Perms(DOMAIN hijackedConn.ParameterStatuses) :
         LET frames == makeClientReady(hijackedConn, order) IN
         \E n \in 0..Len(frames) :
            /\ toClient' = toClient \o SubSeq(frames, 1, n)
            /\ pc' = "sessionStart"
            /\ UNCHANGED <<ret, defers>>
    /\ UNCHANGED <<sessionCtx, cancelReq, hijackedConn, backend, lease,
                   calls, audit, toServer, fromClient, fromServer,
                   clientErrCh, serverErrCh, cpc, cmsg, spc, smsg, serr,
                   ctxDone, cerr, accessErr, cancelRead, startupFrame,
                   config, engines, cloud>>

\* HandleConnection, lines 324-329: the first n sends succeed; when a send
\* fails makeClientReady returns its error at once.
HC_MakeClientReady ==
    /\ pc = "makeClientReady"
    /\ \E order \in Perms(DOMAIN hijackedConn.ParameterStatuses) :
         LET frames == makeClientReady(hijackedConn, order) IN
         \E n \in 0..Len(frames) :
            /\ toClient' = toClient \o SubSeq(frames, 1, n)
            /\ IF n < Len(frames)
               THEN Return(Wrap(Err("write")), defers)
               ELSE pc' = "sessionStart" /\ UNCHANGED <<ret, defers>>
    /\ UNCHANGED <<sessionCtx, cancelReq, hijackedConn, backend, lease,
                   calls, audit, toServer, fromClient, fromServer,
                   clientErrCh, serverErrCh, cpc, cmsg, spc, smsg, serr,
                   ctxDone,
                   cerr, accessErr, cancelRead>>
    /\ UNCHANGED <<startupFrame, config, engines, cloud>>

\* Lines 330-333 without the deferred OnSessionEnd.
HC_SessionStart_NoDeferEnd ==
    /\ pc = "sessionStart"
    /\ audit' = Append(audit, SessionStartEvent(nil))
    /\ pc' = "construct"
    /\ UNCHANGED <<ret, defers, sessionCtx, cancelReq, hijackedConn, backend,
                   lease, calls, toClient, toServer, fromClient, fromServer,
                   clientErrCh, serverErrCh, cpc, cmsg, spc, smsg, serr,
                   ctxDone, cerr, accessErr, cancelRead>>
    /\ UNCHANGED <<startupFrame, config, engines, cloud>>

\* Lines 330-333 without the OnSessionStart call.
HC_SessionStart_NoStartEvent ==
    /\ pc = "sessionStart"
    /\ defers' = Append(defers, "OnSessionEnd")
    /\ pc' = "construct"
    /\ UNCHANGED <<ret, sessionCtx, cancelReq, hijackedConn, backend, lease,
                   calls, audit, toClient, toServer, fromClient, fromServer,
                   clientErrCh, serverErrCh, cpc, cmsg, spc, smsg, serr,
                   ctxDone, cerr, accessErr, cancelRead, startupFrame,
                   config, engines, cloud>>

\* HandleConnection, lines 330-333: session start, and the deferred
\* session end.
HC_SessionStart ==
    /\ pc = "sessionStart"
    /\ audit' = Append(audit, SessionStartEvent(nil))
    /\ defers' = Append(defers, "OnSessionEnd")
    /\ pc' = "construct"
    /\ UNCHANGED <<ret, sessionCtx, cancelReq, hijackedConn, backend, lease,
                   calls, toClient, toServer, fromClient, fromServer,
                   clientErrCh, serverErrCh, cpc, cmsg, spc, smsg, serr,
                   ctxDone,
                   cerr, accessErr, cancelRead>>
    /\ UNCHANGED <<startupFrame, config, engines, cloud>>

\* HandleConnection, lines 334-345: pgconn.Construct, and the deferred
\* serverConn.Close.
HC_Construct ==
    /\ pc = "construct"
    /\ calls' = Append(calls, "Construct")
    /\ \E err \in {nil, Err("Construct")} :
         IF err # nil
         THEN Return(Wrap(err), defers)
         ELSE /\ defers' = Append(defers, "serverConn.Close")
              /\ pc' = "startPumps"
              /\ ret' = ret
    /\ UNCHANGED <<sessionCtx, cancelReq, hijackedConn, backend, lease,
                   audit, toClient, toServer, fromClient, fromServer,
                   clientErrCh, serverErrCh, cpc, cmsg, spc, smsg, serr,
                   ctxDone,
                   cerr, accessErr, cancelRead>>
    /\ UNCHANGED <<startupFrame, config, engines, cloud>>

\* HandleConnection, lines 349-354: the channels and the two goroutines.
HC_StartPumps ==
    /\ pc = "startPumps"
    /\ clientErrCh' = <<>>
    /\ serverErrCh' = <<>>
    /\ cpc' = "receive"
    /\ spc' = "receive"
    /\ pc' = "select"
    /\ UNCHANGED <<ret, defers, sessionCtx, cancelReq, hijackedConn, backend,
                   lease, calls, audit, toClient, toServer, fromClient,
                   fromServer, cmsg, smsg, serr, ctxDone,
                   cerr, accessErr, cancelRead>>
    /\ UNCHANGED <<startupFrame, config, engines, cloud>>

\* Lines 355-363 returning the error a pump reported.
HC_Select_ReturnsErr ==
    /\ pc = "select"
    /\ \/ /\ clientErrCh # <<>>
          /\ clientErrCh' = Tail(clientErrCh)
          /\ Return(Wrap(Head(clientErrCh)), defers)
          /\ UNCHANGED <<serverErrCh, ctxDone>>
       \/ /\ serverErrCh # <<>>
          /\ serverErrCh' = Tail(serverErrCh)
          /\ Return(Wrap(Head(serverErrCh)), defers)
          /\ UNCHANGED <<clientErrCh, ctxDone>>
       \/ /\ ctxDone' = TRUE
          /\ Return(nil, defers)
          /\ UNCHANGED <<clientErrCh, serverErrCh>>
    /\ UNCHANGED <<sessionCtx, cancelReq, hijackedConn, backend, lease,
                   calls, audit, toClient, toServer, fromClient, fromServer,
                   cpc, cmsg, spc, smsg, serr,
                   cerr, accessErr, cancelRead>>
    /\ UNCHANGED <<startupFrame, config, engines, cloud>>

\* HandleConnection, lines 355-363: one of the three cases that is ready (a
\* pump's completion, or ctx.Done() once the context is cancelled); then
\* return nil.
HC_Select ==
    /\ pc = "select"
    /\ \/ /\ clientErrCh # <<>>
          /\ clientErrCh' = Tail(clientErrCh)
          /\ UNCHANGED <<serverErrCh, ctxDone>>
       \/ /\ serverErrCh # <<>>
          /\ serverErrCh' = Tail(serverErrCh)
          /\ UNCHANGED <<clientErrCh, ctxDone>>
       \/ /\ ctxDone' = TRUE
          /\ UNCHANGED <<clientErrCh, serverErrCh>>
    /\ Return(nil, defers)
    /\ UNCHANGED <<sessionCtx, cancelReq, hijackedConn, backend, lease,
                   calls, audit, toClient, toServer, fromClient, fromServer,
                   cpc, cmsg, spc, smsg, serr,
                   cerr, accessErr, cancelRead>>
    /\ UNCHANGED <<startupFrame, config, engines, cloud>>

\* The deferred calls with a serverConn.Close that leaves the backend
\* connection open.
RunDefer_NoClose ==
    /\ pc = "deferring"
    /\ LET d == defers[Len(defers)]
           rest == SubSeq(defers, 1, Len(defers) - 1)
       IN /\ defers' = rest
          /\ pc' = IF rest = <<>> THEN "done" ELSE "deferring"
          /\ audit' = IF d = "OnSessionEnd"
                      THEN Append(audit, SessionEndEvent) ELSE audit
          /\ calls' = IF d = "OnSessionEnd" THEN calls ELSE Append(calls, d)
    /\ UNCHANGED <<ret, sessionCtx, cancelReq, hijackedConn, lease, toClient,
                   toServer, fromClient, fromServer, clientErrCh,
                   serverErrCh, cpc, cmsg, spc, smsg, serr, ctxDone,
                   cerr, accessErr, cancelRead, backend>>
    /\ UNCHANGED <<startupFrame, config, engines, cloud>>

\* The deferred calls run in the order they were deferred.
RunDefer_FirstDeferredFirst ==
    /\ pc = "deferring"
    /\ LET d == Head(defers)
           rest == Tail(defers)
       IN /\ defers' = rest
          /\ pc' = IF rest = <<>> THEN "done" ELSE "deferring"
          /\ backend' = IF d = "serverConn.Close" THEN "closed" ELSE backend
          /\ audit' = IF d = "OnSessionEnd"
                      THEN Append(audit, SessionEndEvent) ELSE audit
          /\ calls' = IF d = "OnSessionEnd" THEN calls ELSE Append(calls, d)
    /\ UNCHANGED <<ret, sessionCtx, cancelReq, hijackedConn, lease, toClient,
                   toServer, fromClient, fromServer, clientErrCh,
                   serverErrCh, cpc, cmsg, spc, smsg, serr, ctxDone,
                   cerr, accessErr, cancelRead, startupFrame, config,
                   engines, cloud>>

\* One deferred call of HandleConnection, last deferred first
\* (lines 310-315, 333, 340-345).
RunDefer ==
    /\ pc = "deferring"
    /\ LET d == defers[Len(defers)]
           rest == SubSeq(defers, 1, Len(defers) - 1)
       IN /\ defers' = rest
          /\ pc' = IF rest = <<>> THEN "done" ELSE "deferring"
          /\ backend' = IF d = "serverConn.Close" THEN "closed" ELSE backend
          /\ audit' = IF d = "OnSessionEnd"
                      THEN Append(audit, SessionEndEvent) ELSE audit
          /\ calls' = IF d = "OnSessionEnd" THEN calls ELSE Append(calls, d)
    /\ UNCHANGED <<ret, sessionCtx, cancelReq, hijackedConn, lease, toClient,
                   toServer, fromClient, fromServer, clientErrCh,
                   serverErrCh, cpc, cmsg, spc, smsg, serr, ctxDone,
                   cerr, accessErr, cancelRead>>
    /\ UNCHANGED <<startupFrame, config, engines, cloud>>

(***************************************************************************)
(* Frames of the relay phase and their audit events.                       *)
(***************************************************************************)
\* Go strings and byte slices are sequences of byte values.
\* string(p) copies the bytes of p.
BytesToString(p) == [i \in 1..Len(p) |-> p[i]]

\* "<binary>" and "<unknown>".
BinaryPlaceholder == <<60, 98, 105, 110, 97, 114, 121, 62>>

UnknownPlaceholder == <<60, 117, 110, 107, 110, 111, 119, 110, 62>>

parameterFormatCodeText == 0

parameterFormatCodeBinary == 1

closeTypePreparedStatement == "S"

closeTypeDestinationPortal == "P"

\* int16(fc) for a uint16 format code.
Int16(fc) == IF fc >= 32768 THEN fc - 65536 ELSE fc

RECURSIVE formatFrom(_, _, _)
RECURSIVE formatFrom_RawBinary(_, _, _)
\* The loop of formatParameters with a binary case that converts the bytes
\* as the text case does.
formatFrom_RawBinary(parameters, formatCodes, i) ==
    IF i > Len(parameters) THEN <<>>
    ELSE LET one ==
               IF Len(formatCodes) = 0 THEN BytesToString(parameters[i])
               ELSE IF formatCodes[i] = parameterFormatCodeText
               THEN BytesToString(parameters[i])
               ELSE IF formatCodes[i] = parameterFormatCodeBinary
               THEN BytesToString(parameters[i])
               ELSE UnknownPlaceholder
         IN <<one>> \o formatFrom_RawBinary(parameters, formatCodes, i + 1)

\* The loop of formatParameters from index i on.
formatFrom(parameters, formatCodes, i) ==
    IF i > Len(parameters) THEN <<>>
    ELSE LET one ==
               IF Len(formatCodes) = 0 THEN BytesToString(parameters[i])
               ELSE IF formatCodes[i] = parameterFormatCodeText
               THEN BytesToString(parameters[i])
               ELSE IF formatCodes[i] = parameterFormatCodeBinary
               THEN BinaryPlaceholder
               ELSE UnknownPlaceholder
         IN <<one>> \o formatFrom(parameters, formatCodes, i + 1)

\* formatParameters without the test of the number of format codes: on a
\* mismatch every parameter is converted as text.
formatParameters_IgnoresMismatch(parameters, formatCodes) ==
    IF Len(formatCodes) # 0 /\ Len(formatCodes) # Len(parameters)
    THEN formatFrom(parameters, <<>>, 1)
    ELSE formatFrom(parameters, formatCodes, 1)

\* formatParameters: the audit rendering of the parameters of a message.
formatParameters(parameters, formatCodes) ==
    IF Len(formatCodes) # 0 /\ Len(formatCodes) # Len(parameters)
    THEN <<>>
    ELSE formatFrom(parameters, formatCodes, 1)

\* The audit events each audit*Message call emits for a message.
auditQueryMessage(msg) == <<[kind |-> "query", Query |-> msg.String]>>

auditParseMessage(msg) ==
    <<[kind |-> "parse", StatementName |-> msg.Name, Query |-> msg.Query]>>

auditBindMessage(msg) ==
    <<[kind |-> "bind", StatementName |-> msg.PreparedStatement,
       PortalName |-> msg.DestinationPortal,
       Parameters |-> formatParameters(msg.Parameters,
                                       msg.ParameterFormatCodes)]>>

auditExecuteMessage(msg) == <<[kind |-> "execute", PortalName |-> msg.Portal]>>

\* auditCloseMessage with the name of a closed portal put in the statement
\* field of the event.
auditCloseMessage_PortalAsStatement(msg) ==
    IF msg.ObjectType = closeTypePreparedStatement
    THEN <<[kind |-> "close", StatementName |-> msg.Name, PortalName |-> ""]>>
    ELSE IF msg.ObjectType = closeTypeDestinationPortal
    THEN <<[kind |-> "close", StatementName |-> msg.Name, PortalName |-> ""]>>
    ELSE <<>>

auditCloseMessage(msg) ==
    IF msg.ObjectType = closeTypePreparedStatement
    THEN <<[kind |-> "close", StatementName |-> msg.Name, PortalName |-> ""]>>
    ELSE IF msg.ObjectType = closeTypeDestinationPortal
    THEN <<[kind |-> "close", StatementName |-> "", PortalName |-> msg.Name]>>
    ELSE <<>>

auditFuncCallMessage(msg) ==
    <<[kind |-> "funccall", FunctionOID |-> msg.Function,
       FunctionArgs |->
          formatParameters(msg.Arguments,
                           [i \in 1..Len(msg.ArgFormatCodes) |->
                               Int16(msg.ArgFormatCodes[i])])]>>

\* The switch of receiveFromClient (lines 507-523): the events emitted for
\* a message.
auditMessage(msg) ==
    CASE msg.type = "Query" -> auditQueryMessage(msg)
      [] msg.type = "Parse" -> auditParseMessage(msg)
      [] msg.type = "Bind" -> auditBindMessage(msg)
      [] msg.type = "Execute" -> auditExecuteMessage(msg)
      [] msg.type = "Close" -> auditCloseMessage(msg)
      [] msg.type = "FunctionCall" -> auditFuncCallMessage(msg)
      [] OTHER -> <<>>

\* Frames client.Receive may return.
ClientMessages ==
    { [type |-> "Query", String |-> "SELECT 1"],
      [type |-> "Parse", Name |-> "s1", Query |-> "SELECT $1"],
      [type |-> "Bind", PreparedStatement |-> "s1", DestinationPortal |-> "p1",
       Parameters |-> <<<<49>>, <<0, 255>>>>, ParameterFormatCodes |-> <<0, 1>>],
      [type |-> "Execute", Portal |-> "p1"],
      [type |-> "Close", ObjectType |-> "S", Name |-> "s1"],
      [type |-> "Close", ObjectType |-> "P", Name |-> "p1"],
      [type |-> "Close", ObjectType |-> "X", Name |-> "x1"],
      [type |-> "FunctionCall", Function |-> 1598, Arguments |-> <<<<49>>>>,
       ArgFormatCodes |-> <<>>],
      [type |-> "Sync"],
      [type |-> "Terminate"] }

\* Frames server.Receive may return.
ServerMessages ==
    { [type |-> "DataRow", Values |-> <<<<49>>>>],
      [type |-> "CommandComplete", CommandTag |-> "SELECT 1"] }

\* Frames read so far by the two pumps.
FramesRead == Len(fromClient) + Len(fromServer)

(***************************************************************************)
(* receiveFromClient.                                                      *)
(***************************************************************************)
\* Lines 498-505: client.Receive returns a message or an error; max bounds
\* the frames on the wire.
ClientReceive(max) ==
    /\ cpc = "receive"
    /\ \/ /\ FramesRead < max
          /\ \E m \in ClientMessages :
               /\ fromClient' = Append(fromClient, m)
               /\ cmsg' = m
          /\ cpc' = "switch"
          /\ cerr' = nil
          /\ UNCHANGED clientErrCh
       \/ /\ Len(clientErrCh) < 1
          /\ cerr' = EOF
          /\ clientErrCh' = Append(clientErrCh, cerr')
          /\ cpc' = "stopped"
          /\ UNCHANGED <<fromClient, cmsg>>
    /\ UNCHANGED <<pc, ret, defers, sessionCtx, cancelReq, hijackedConn,
                   backend, lease, calls, audit, toClient, toServer,
                   fromServer, serverErrCh, spc, smsg, serr, ctxDone,
                   accessErr, cancelRead>>
    /\ UNCHANGED <<startupFrame, config, engines, cloud>>

\* The switch with a return, in place of the fall-through to server.Send,
\* for the messages that have no audit event.
ClientSwitch_DropUnaudited ==
    /\ cpc = "switch"
    /\ IF cmsg.type = "Terminate"
       THEN /\ Len(clientErrCh) < 1
            /\ clientErrCh' = Append(clientErrCh, nil)
            /\ cpc' = "stopped"
            /\ audit' = audit
       ELSE /\ audit' = audit \o auditMessage(cmsg)
            /\ cpc' = IF auditMessage(cmsg) = <<>> THEN "receive" ELSE "send"
            /\ clientErrCh' = clientErrCh
    /\ UNCHANGED toServer
    /\ UNCHANGED <<pc, ret, defers, sessionCtx, cancelReq, hijackedConn,
                   backend, lease, calls, toClient, fromClient, fromServer,
                   serverErrCh, cmsg, spc, smsg, serr, ctxDone, cerr,
                   accessErr, cancelRead>>
    /\ UNCHANGED <<startupFrame, config, engines, cloud>>

\* The switch with server.Send(message) moved in front of the audit call.
ClientSwitch_SendFirst ==
    /\ cpc = "switch"
    /\ IF cmsg.type = "Terminate"
       THEN /\ Len(clientErrCh) < 1
            /\ clientErrCh' = Append(clientErrCh, nil)
            /\ cpc' = "stopped"
            /\ UNCHANGED <<audit, toServer>>
       ELSE /\ backend = "open"
            /\ toServer' = Append(toServer, cmsg)
            /\ audit' = audit \o auditMessage(cmsg)
            /\ cpc' = "receive"
            /\ clientErrCh' = clientErrCh
    /\ UNCHANGED <<pc, ret, defers, sessionCtx, cancelReq, hijackedConn,
                   backend, lease, calls, toClient, fromClient, fromServer,
                   serverErrCh, cmsg, spc, smsg, serr, ctxDone, cerr,
                   accessErr, cancelRead>>
    /\ UNCHANGED <<startupFrame, config, engines, cloud>>

\* The switch with the audit call made from a goroutine of its own, so that
\* an event may overtake the event emitted before it.
ClientSwitch_AuditUnordered ==
    /\ cpc = "switch"
    /\ IF cmsg.type = "Terminate"
       THEN /\ Len(clientErrCh) < 1
            /\ clientErrCh' = Append(clientErrCh, nil)
            /\ cpc' = "stopped"
            /\ audit' = audit
       ELSE /\ \/ audit' = audit \o auditMessage(cmsg)
               \/ audit' = SubSeq(audit, 1, Len(audit) - 1)
                              \o auditMessage(cmsg)
                              \o SubSeq(audit, Len(audit), Len(audit))
            /\ cpc' = "send"
            /\ clientErrCh' = clientErrCh
    /\ UNCHANGED toServer
    /\ UNCHANGED <<pc, ret, defers, sessionCtx, cancelReq, hijackedConn,
                   backend, lease, calls, toClient, fromClient, fromServer,
                   serverErrCh, cmsg, spc, smsg, serr, ctxDone, cerr,
                   accessErr, cancelRead>>
    /\ UNCHANGED <<startupFrame, config, engines, cloud>>

\* The switch reporting the termination frame as an error.
ClientSwitch_TerminateIsError ==
    /\ cpc = "switch"
    /\ IF cmsg.type = "Terminate"
       THEN /\ Len(clientErrCh) < 1
            /\ clientErrCh' = Append(clientErrCh, Err("terminate"))
            /\ cpc' = "stopped"
            /\ audit' = audit
       ELSE /\ audit' = audit \o auditMessage(cmsg)
            /\ cpc' = "send"
            /\ clientErrCh' = clientErrCh
    /\ UNCHANGED <<pc, ret, defers, sessionCtx, cancelReq, hijackedConn,
                   backend, lease, calls, toClient, toServer, fromClient,
                   fromServer, serverErrCh, cmsg, spc, smsg, serr, ctxDone,
                   cerr, accessErr, cancelRead>>
    /\ UNCHANGED <<startupFrame, config, engines, cloud>>

\* Lines 507-523: the audit event of the message; Terminate stops the pump.
ClientSwitch ==
    /\ cpc = "switch"
    /\ IF cmsg.type = "Terminate"
       THEN /\ Len(clientErrCh) < 1
            /\ clientErrCh' = Append(clientErrCh, nil)
            /\ cpc' = "stopped"
            /\ audit' = audit
       ELSE /\ audit' = audit \o auditMessage(cmsg)
            /\ cpc' = "send"
            /\ clientErrCh' = clientErrCh
    /\ UNCHANGED <<pc, ret, defers, sessionCtx, cancelReq, hijackedConn,
                   backend, lease, calls, toClient, toServer, fromClient,
                   fromServer, serverErrCh, cmsg, spc, smsg, serr, ctxDone,
                   cerr, accessErr, cancelRead>>
    /\ UNCHANGED <<startupFrame, config, engines, cloud>>

\* Lines 524-529: server.Send(message).
ClientSend ==
    /\ cpc = "send"
    /\ \/ /\ backend = "open"
          /\ toServer' = Append(toServer, cmsg)
          /\ cpc' = "receive"
          /\ cerr' = nil
          /\ UNCHANGED clientErrCh
       \/ /\ Len(clientErrCh) < 1
          /\ cerr' = Err("write")
          /\ clientErrCh' = Append(clientErrCh, cerr')
          /\ cpc' = "stopped"
          /\ UNCHANGED toServer
    /\ UNCHANGED <<pc, ret, defers, sessionCtx, cancelReq, hijackedConn,
                   backend, lease, calls, audit, toClient, fromClient,
                   fromServer, serverErrCh, cmsg, spc, smsg, serr, ctxDone,
                   accessErr, cancelRead>>
    /\ UNCHANGED <<startupFrame, config, engines, cloud>>

(***************************************************************************)
(* receiveFromServer.                                                      *)
(***************************************************************************)
\* Lines 593-594 and 604-605: server.Receive returns a message or an error;
\* max bounds the frames on the wire.
ServerReceive(max) ==
    /\ spc = "receive"
    /\ \/ /\ FramesRead < max
          /\ \E m \in ServerMessages :
               /\ fromServer' = Append(fromServer, m)
               /\ smsg' = m
          /\ spc' = "send"
          /\ serr' = nil
       \/ /\ serr' = EOF
          /\ spc' = "receiveFailed"
          /\ UNCHANGED <<fromServer, smsg>>
    /\ UNCHANGED <<pc, ret, defers, sessionCtx, cancelReq, hijackedConn,
                   backend, lease, calls, audit, toClient, toServer,
                   fromClient, clientErrCh, serverErrCh, cpc, cmsg, ctxDone,
                   cerr, accessErr, cancelRead>>
    /\ UNCHANGED <<startupFrame, config, engines, cloud>>

\* Lines 595-602 with the completion written to the channel of the other
\* pump.
ServerReceiveFailed_WrongChannel ==
    /\ spc = "receiveFailed"
    /\ clientErrCh' = Append(clientErrCh,
                             IF backend = "closed" THEN nil ELSE serr)
    /\ spc' = "stopped"
    /\ UNCHANGED <<pc, ret, defers, sessionCtx, cancelReq, hijackedConn,
                   backend, lease, calls, audit, toClient, toServer,
                   fromClient, fromServer, serverErrCh, cpc, cmsg, smsg,
                   serr, ctxDone, cerr, accessErr, cancelRead, startupFrame,
                   config, engines, cloud>>

\* Lines 595-602 without the serverConn.IsClosed() test.
ServerReceiveFailed_AlwaysError ==
    /\ spc = "receiveFailed"
    /\ Len(serverErrCh) < 1
    /\ serverErrCh' = Append(serverErrCh, serr)
    /\ spc' = "stopped"
    /\ UNCHANGED <<pc, ret, defers, sessionCtx, cancelReq, hijackedConn,
                   backend, lease, calls, audit, toClient, toServer,
                   fromClient, fromServer, clientErrCh, cpc, cmsg, smsg,
                   serr, ctxDone, cerr, accessErr, cancelRead, startupFrame,
                   config, engines, cloud>>

\* Lines 595-602: nil when the server connection is closed, else the error.
ServerReceiveFailed ==
    /\ spc = "receiveFailed"
    /\ Len(serverErrCh) < 1
    /\ serverErrCh' = Append(serverErrCh,
                             IF backend = "closed" THEN nil ELSE serr)
    /\ spc' = "stopped"
    /\ UNCHANGED <<pc, ret, defers, sessionCtx, cancelReq, hijackedConn,
                   backend, lease, calls, audit, toClient, toServer,
                   fromClient, fromServer, clientErrCh, cpc, cmsg, smsg,
                   serr, ctxDone,
                   cerr, accessErr, cancelRead>>
    /\ UNCHANGED <<startupFrame, config, engines, cloud>>

\* Lines 611-616 with a client.Send that writes the frame twice.
ServerSend_SendsTwice ==
    /\ spc = "send"
    /\ \/ /\ toClient' = Append(Append(toClient, smsg), smsg)
          /\ spc' = "receive"
          /\ UNCHANGED <<serverErrCh, serr>>
       \/ /\ Len(serverErrCh) < 1
          /\ serverErrCh' = Append(serverErrCh, Err("write"))
          /\ serr' = Err("write")
          /\ spc' = "stopped"
          /\ UNCHANGED toClient
    /\ UNCHANGED <<pc, ret, defers, sessionCtx, cancelReq, hijackedConn,
                   backend, lease, calls, audit, toServer, fromClient,
                   fromServer, clientErrCh, cpc, cmsg, smsg, ctxDone,
                   cerr, accessErr, cancelRead, startupFrame, config,
                   engines, cloud>>

\* Lines 611-616: client.Send(message).
ServerSend ==
    /\ spc = "send"
    /\ \/ /\ toClient' = Append(toClient, smsg)
          /\ spc' = "receive"
          /\ UNCHANGED <<serverErrCh, serr>>
       \/ /\ Len(serverErrCh) < 1
          /\ serverErrCh' = Append(serverErrCh, Err("write"))
          /\ serr' = Err("write")
          /\ spc' = "stopped"
          /\ UNCHANGED toClient
    /\ UNCHANGED <<pc, ret, defers, sessionCtx, cancelReq, hijackedConn,
                   backend, lease, calls, audit, toServer, fromClient,
                   fromServer, clientErrCh, cpc, cmsg, smsg, ctxDone,
                   cerr, accessErr, cancelRead>>
    /\ UNCHANGED <<startupFrame, config, engines, cloud>>

\* errors.As(trace.Unwrap(err), &pgErr) (line 271): the error is, or wraps,
\* a *pgconn.PgError, whose fields it then carries.
IsPgError(err) == "pg" \in DOMAIN err

\* err.Error(): the text of the error, which is the text of its cause: what
\* failed and, when the cause carries one, its detail.
ErrorText(err) ==
    IF "detail" \in DOMAIN err THEN (err.kind \o ": ") \o err.detail
    ELSE err.kind

\* toErrorResponse, lines 269-282.
toErrorResponse(err) ==
    IF ~IsPgError(err)
    THEN [type |-> "ErrorResponse", Severity |-> "", Code |-> "",
          Message |-> ErrorText(err), Detail |-> ""]
    ELSE [type |-> "ErrorResponse", Severity |-> err.pg.Severity,
          Code |-> err.pg.Code, Message |-> err.pg.Message,
          Detail |-> err.pg.Detail]

IsErrorResponse(m) == m.type = "ErrorResponse"

\* SendError, lines 260-264, which the owner of the connection calls once
\* with the error HandleConnection returned, before it closes the
\* connection.  A client.Send that fails writes nothing and is logged only,
\* which leaves the state as it is.
SendError ==
    /\ pc = "done"
    /\ ret # nil
    /\ \A i \in DOMAIN toClient : ~IsErrorResponse(toClient[i])
    /\ toClient' = Append(toClient, toErrorResponse(ret))
    /\ UNCHANGED <<pc, ret, defers, sessionCtx, cancelReq, hijackedConn,
                   backend, lease, calls, audit, toServer, fromClient,
                   fromServer, clientErrCh, serverErrCh, cpc, cmsg, spc,
                   smsg, serr, cerr, ctxDone, accessErr, cancelRead>>
    /\ UNCHANGED <<startupFrame, config, engines, cloud>>

Next ==
    \/ InitializeConnection(StartupFrames)
    \/ HC_CheckAccess
    \/ HC_CancelRequest
    \/ HC_Activate
    \/ HC_Connect
    \/ HC_MakeClientReady
    \/ HC_SessionStart
    \/ HC_Construct
    \/ HC_StartPumps
    \/ HC_Select
    \/ RunDefer
    \/ ClientReceive(MaxFrames)
    \/ ClientSwitch
    \/ ClientSend
    \/ ServerReceive(MaxFrames)
    \/ ServerReceiveFailed
    \/ ServerSend
    \/ SendError

Spec == Init /\ [][Next]_vars

(***************************************************************************)
(* The relay phase alone: one connection right after HandleConnection has  *)
(* started the two pumps (line 354), with a larger budget of frames.       *)
(***************************************************************************)
InitRelay ==
    /\ pc = "select"
    /\ ret = NoValue
    /\ defers = <<"Deactivate", "OnSessionEnd", "serverConn.Close">>
    /\ sessionCtx =
         [ Identity          |-> [Username |-> TeleportUser],
           AutoCreateUser    |-> TRUE,
           DatabaseName      |-> "app",
           DatabaseUser      |-> "alice",
           StartupParameters |-> [k \in {"application_name"} |-> "psql"] ]
    /\ cancelReq = NoValue
    /\ hijackedConn =
         [PID |-> 7, SecretKey |-> 8, ParameterStatuses |-> EmptyMap]
    /\ backend = "open"
    /\ lease = "released"
    /\ calls = <<"GetAuthPreference", "CheckAccess", "Activate",
                 "getConnectConfig", "ConnectConfig", "cancelAutoUserLease",
                 "Construct">>
    /\ audit = <<SessionStartEvent(nil)>>
    /\ toClient = makeClientReady(hijackedConn, <<>>)
    /\ toServer = <<>>
    /\ fromClient = <<>>
    /\ fromServer = <<>>
    /\ clientErrCh = <<>>
    /\ serverErrCh = <<>>
    /\ cpc = "receive"
    /\ cmsg = NoValue
    /\ spc = "receive"
    /\ smsg = NoValue
    /\ serr = nil
    /\ cerr = nil
    /\ ctxDone = FALSE
    /\ accessErr = nil
    /\ cancelRead = NoValue
    /\ startupFrame =
         [ type |-> "StartupMessage",
           Parameters |->
             [k \in {"database", "user", "application_name"} |->
                 IF k = "database" THEN "app"
                 ELSE IF k = "user" THEN "alice" ELSE "psql"] ]
    /\ config = getConnectConfig(sessionCtx)
    /\ engines = <<>>
    /\ cloud = NoValue

NextRelay ==
    \/ HC_Select
    \/ RunDefer
    \/ ClientReceive(MaxRelayFrames)
    \/ ClientSwitch
    \/ ClientSend
    \/ ServerReceive(MaxRelayFrames)
    \/ ServerReceiveFailed
    \/ ServerSend

SpecRelay == InitRelay /\ [][NextRelay]_vars

\* InitRelay is a state a full run reaches.
RelayStateReached == InitRelay


(***************************************************************************)
(* Properties.                                                             *)
(***************************************************************************)
Count(seq, x) == Cardinality({i \in DOMAIN seq : seq[i] = x})

Last(seq) == seq[Len(seq)]

Front(seq) == SubSeq(seq, 1, Len(seq) - 1)

IsSessionStart(e) == e.kind = "session.start"

IsSessionEnd(e) == e.kind = "session.end"

\* The first frame was a cancel request.
CancelPath == cancelReq # NoValue

\* checkAccess returned an error to HandleConnection.
AuthorizationFailed == accessErr # NoValue /\ accessErr # nil

C2_CancelSuccessIffEOF ==
    (CancelPath /\ pc = "done" /\ cancelRead # NoValue) =>
        ((ret = nil) <=> (cancelRead.err = EOF))

\* C3: on the non-cancel path, once Activate has returned successfully,
\* Deactivate is called exactly once before HandleConnection returns, on
\* every exit path, and only while HandleConnection is returning.
C3_DeactivateExactlyOnce ==
    /\ Count(calls, "Deactivate") <= 1
    /\ (~CancelPath /\ lease # "none" /\ pc = "done")
          => Count(calls, "Deactivate") = 1
    /\ Count(calls, "Deactivate") = 1
          => lease # "none" /\ pc \in {"deferring", "done"}

\* HandleConnection returned after a context cancellation ended the relay,
\* and Deactivate has run.
C3_Witness ==
    /\ pc = "done"
    /\ ctxDone
    /\ lease = "released"
    /\ Count(calls, "Deactivate") = 1

C5_NoBackendContactAfterDenial ==
    AuthorizationFailed =>
        /\ pc = "done"
        /\ ret # nil
        /\ ret = Wrap(accessErr)
        /\ Count(calls, "Activate") = 0
        /\ Count(calls, "ConnectConfig") = 0
        /\ Count(calls, "DialContext") = 0
        /\ toServer = <<>>
        /\ backend = "none"
        /\ lease = "none"

\* The auto-provisioning user-name check rejected the session.
C5_Witness ==
    /\ AuthorizationFailed
    /\ pc = "done"
    /\ sessionCtx.AutoCreateUser
    /\ sessionCtx.DatabaseUser # sessionCtx.Identity.Username
    /\ calls = <<>>


NotTerminate(m) == m.type # "Terminate"

\* C6 (as stated): every frame the client-to-backend pump has read, a
\* termination frame included, has been sent to the backend once the pump is
\* done with it (it is back at Receive, or has stopped for another reason
\* than a failed send).
C6_EveryFrameForwarded ==
    (~CancelPath /\ (cpc = "receive" \/ (cpc = "stopped" /\ cerr # Err("write"))))
        => toServer = fromClient

\* C6 (amended): every frame the client-to-backend pump reads, except a
\* termination frame, is sent to the backend unchanged and in order (the
\* last one is missing only while it is being processed or when its send
\* failed, which stops the pump); a termination frame is not forwarded, it
\* stops the pump.
C6_EveryFrameButTerminateForwarded ==
    ~CancelPath =>
        LET fwd == SelectSeq(fromClient, NotTerminate) IN
        /\ cpc = "idle" => toServer = <<>> /\ fromClient = <<>>
        /\ cpc = "receive" => toServer = fwd /\ fwd = fromClient
        /\ cpc \in {"switch", "send"} =>
              /\ toServer = Front(fromClient)
              /\ cmsg = Last(fromClient)
        /\ cpc = "send" => NotTerminate(cmsg)
        /\ cpc = "stopped" =>
              IF cerr = Err("write")
              THEN toServer = Front(fwd) /\ fwd = fromClient
              ELSE toServer = fwd
        /\ \A i \in DOMAIN toServer : NotTerminate(toServer[i])

\* The pump forwarded one frame and then stopped on a termination frame,
\* which it did not forward.
C6_Witness ==
    /\ ~CancelPath
    /\ cpc = "stopped"
    /\ Len(fromClient) = 2
    /\ Last(fromClient).type = "Terminate"
    /\ toServer = <<fromClient[1]>>

IsReadyFrame(m) ==
    m.type \in {"AuthenticationOk", "BackendKeyData", "ParameterStatus",
                "ReadyForQuery"}

\* C7: after a successful backend connect the frames sent to the client
\* before relaying are, in order, one authentication-ok, one
\* backend-key-data with the backend's PID and secret, every
\* backend-reported parameter-status once, then one ready-for-query; no
\* parameter-status follows ready-for-query, and after a failed send
\* nothing more of the sequence is sent.
C7_ReadySequence ==
    IF hijackedConn = NoValue
    THEN \A i \in DOMAIN toClient : IsErrorResponse(toClient[i])
    ELSE LET ps == hijackedConn.ParameterStatuses
             n == Cardinality(DOMAIN ps)
             ready == SelectSeq(toClient, IsReadyFrame)
             k == Len(ready)
         IN /\ ready = SubSeq(toClient, 1, k)
            /\ k <= n + 3
            /\ \A i \in 1..k :
                 /\ i = 1 => ready[i] = [type |-> "AuthenticationOk"]
                 /\ i = 2 => ready[i] = [type |-> "BackendKeyData",
                                         ProcessID |-> hijackedConn.PID,
                                         SecretKey |-> hijackedConn.SecretKey]
                 /\ (2 < i /\ i <= n + 2) =>
                       /\ ready[i].type = "ParameterStatus"
                       /\ ready[i].Name \in DOMAIN ps
                       /\ ready[i].Value = ps[ready[i].Name]
                       /\ \A j \in 3..(i - 1) : ready[j].Name # ready[i].Name
                 /\ i = n + 3 =>
                       ready[i] = [type |-> "ReadyForQuery", TxStatus |-> "I"]
            /\ pc \in {"sessionStart", "construct", "startPumps", "select"}
                  => k = n + 3
            /\ (k < n + 3 /\ pc # "makeClientReady")
                  => /\ pc \in {"deferring", "done"}
                     /\ ret # nil
                     /\ \A i \in (k + 1)..Len(toClient) :
                            IsErrorResponse(toClient[i])
                     /\ cpc = "idle" /\ spc = "idle"

\* The whole sequence, with two parameter statuses, was sent and the relay
\* has started.
C7_Witness ==
    /\ pc = "select"
    /\ hijackedConn # NoValue
    /\ Cardinality(DOMAIN hijackedConn.ParameterStatuses) = 2
    /\ Len(toClient) = 5
    /\ toClient[5].type = "ReadyForQuery"

\* C8: the lease returned by a successful Activate is released exactly once,
\* immediately after the backend connect attempt finishes (successfully or
\* not), before the first Ready frame is sent and before a pump starts; no
\* engine holds the lease while relaying.
C8_LeaseReleasedAfterConnect ==
    /\ Count(calls, "cancelAutoUserLease") <= 1
    /\ (lease = "released") <=> (Count(calls, "cancelAutoUserLease") = 1)
    /\ lease = "held" =>
          /\ pc = "connect"
          /\ Count(calls, "getConnectConfig") = 0
          /\ backend = "none"
    /\ Count(calls, "getConnectConfig") > 0 => lease = "released"
    /\ \A i \in DOMAIN calls :
          calls[i] = "cancelAutoUserLease" =>
              /\ i > 1
              /\ calls[i - 1] \in {"getConnectConfig", "ConnectConfig"}
    /\ (SelectSeq(toClient, IsReadyFrame) # <<>> \/ cpc # "idle" \/ spc # "idle")
          => lease = "released"

\* The connect attempt failed and the lease was released.
C8_Witness ==
    /\ pc = "done"
    /\ lease = "released"
    /\ hijackedConn = NoValue
    /\ ret # nil
    /\ Count(calls, "cancelAutoUserLease") = 1

\* The frames that have an audit event: query, parse, bind, execute, close
\* of a statement or a portal, function call.
NeedsAudit(m) ==
    \/ m.type \in {"Query", "Parse", "Bind", "Execute", "FunctionCall"}
    \/ m.type = "Close" /\ m.ObjectType \in {"S", "P"}

\* The kind of audit event a frame has.
AuditKind(m) ==
    CASE m.type = "Query" -> "query"
      [] m.type = "Parse" -> "parse"
      [] m.type = "Bind" -> "bind"
      [] m.type = "Execute" -> "execute"
      [] m.type = "Close" -> "close"
      [] m.type = "FunctionCall" -> "funccall"

IsPumpEvent(e) == ~IsSessionStart(e) /\ ~IsSessionEnd(e)

\* The audit events emitted by the client-to-backend pump, in order.
PumpEvents(a) == SelectSeq(a, IsPumpEvent)

\* C9: in the client-to-backend pump, whenever a query, parse, bind, execute,
\* close (statement or portal) or function-call frame is sent to the backend,
\* the audit event of that frame has already been issued: it is the last
\* event the pump emitted, and the pump has emitted one event for each such
\* frame sent so far.
C9_AuditBeforeForward ==
    [][ (Len(toServer') = Len(toServer) + 1 /\ NeedsAudit(Last(toServer')))
          => LET ev == PumpEvents(audit) IN
             /\ ev # <<>>
             /\ Last(ev).kind = AuditKind(Last(toServer'))
             /\ Len(ev) = Len(SelectSeq(toServer', NeedsAudit)) ]_vars

\* A simple query reached the backend and its event is in the audit log.
C9_Witness ==
    /\ toServer # <<>>
    /\ Last(toServer) = [type |-> "Query", String |-> "SELECT 1"]
    /\ PumpEvents(audit) = <<[kind |-> "query", Query |-> "SELECT 1"]>>

\* C10: the audit events emitted by the client-to-backend pump are in the
\* order of the frames that generated them: the i-th event is the event of
\* the i-th audited frame read, so for parse, bind, execute read in that
\* order the parse event precedes the bind event, which precedes the
\* execute event.
C10_AuditOrderIsWireOrder ==
    LET ev == PumpEvents(audit)
        fr == SelectSeq(fromClient, NeedsAudit)
    IN /\ Len(ev) <= Len(fr)
       /\ Len(ev) >= Len(fr) - 1
       /\ Len(ev) < Len(fr) => cpc = "switch"
       /\ \A i \in 1..Len(ev) :
            /\ ev[i].kind = AuditKind(fr[i])
            /\ fr[i].type = "Parse" => ev[i].StatementName = fr[i].Name
            /\ fr[i].type = "Bind" =>
                  ev[i].StatementName = fr[i].PreparedStatement
            /\ fr[i].type = "Execute" => ev[i].PortalName = fr[i].Portal

\* Parse, bind, execute were read in that order and their three events were
\* emitted.
C10_Witness ==
    /\ Len(fromClient) = 3
    /\ fromClient[1].type = "Parse"
    /\ fromClient[2].type = "Bind"
    /\ fromClient[3].type = "Execute"
    /\ Len(PumpEvents(audit)) = 3
    /\ PumpEvents(audit)[1].kind = "parse"
    /\ PumpEvents(audit)[2].kind = "bind"
    /\ PumpEvents(audit)[3].kind = "execute"

\* The relay pumps were started (lines 353-354).
PumpsStarted == cpc # "idle" /\ spc # "idle"

\* C11: every HandleConnection run in which the relay pumps were started has
\* emitted exactly one session-end event when it has returned, whether the
\* client pump or the backend pump finished first or the context was
\* cancelled, and none before it returns; no run emits more than one; a run
\* in which authorization failed emits no session-end event.
C11_SessionEndExactlyOnce ==
    /\ Count(audit, SessionEndEvent) <= 1
    /\ (PumpsStarted /\ pc = "done") => Count(audit, SessionEndEvent) = 1
    /\ (PumpsStarted /\ pc = "select") => Count(audit, SessionEndEvent) = 0
    /\ AuthorizationFailed => Count(audit, SessionEndEvent) = 0

\* The backend pump finished first with the client pump still running, and
\* HandleConnection returned with its session-end event emitted.
C11_Witness ==
    /\ pc = "done"
    /\ PumpsStarted
    /\ spc = "stopped"
    /\ cpc # "stopped"
    /\ ~ctxDone
    /\ Count(audit, SessionEndEvent) = 1

(***************************************************************************)
(* The teardown of the relay, with the scheduling the code can rely on.    *)
(***************************************************************************)
MaxTeardownFrames == 2

NextTeardown ==
    \/ HC_Select
    \/ RunDefer
    \/ ClientReceive(MaxTeardownFrames)
    \/ ClientSwitch
    \/ ClientSend
    \/ ServerReceive(MaxTeardownFrames)
    \/ ServerReceiveFailed
    \/ ServerSend

\* A select with a ready channel proceeds (lines 355-360).
SelectReady == HC_Select /\ (clientErrCh # <<>> \/ serverErrCh # <<>>)

\* server.Receive() on the connection serverConn.Close closed returns
\* (lines 340-341, 593-594).
ReceiveOnClosed == ServerReceive(MaxTeardownFrames) /\ backend = "closed"

\* The goroutines and the deferred calls of HandleConnection take their
\* steps; a read returns when its connection was closed.  The engine closes
\* the backend connection only (line 341): nothing makes client.Receive()
\* (line 498) return but the client or the owner of the client connection.
SpecTeardown ==
    /\ InitRelay
    /\ [][NextTeardown]_vars
    /\ WF_vars(SelectReady)
    /\ WF_vars(RunDefer)
    /\ WF_vars(ClientSwitch)
    /\ WF_vars(ClientSend)
    /\ WF_vars(ServerSend)
    /\ WF_vars(ServerReceiveFailed)
    /\ WF_vars(ReceiveOnClosed)

\* A pump finished or the context was cancelled.
RelayEnding == PumpsStarted /\ (ctxDone \/ cpc = "stopped" \/ spc = "stopped")

C13_RelayEndsWithoutError ==
    PumpsStarted =>
        /\ pc \in {"deferring", "done"} => ret = nil
        /\ \A i \in DOMAIN toClient : ~IsErrorResponse(toClient[i])

\* The client pump failed to forward a frame and reported the write error,
\* the select received it, and HandleConnection returned nil.
C13_Witness ==
    /\ pc = "done"
    /\ cpc = "stopped"
    /\ cerr = Err("write")
    /\ clientErrCh = <<>>
    /\ ~ctxDone
    /\ ret = nil

\* The last frame the client pump read is a termination frame.
TerminateRead == fromClient # <<>> /\ Last(fromClient).type = "Terminate"

\* C14: when the client-to-backend pump reads a termination frame it reads
\* nothing more and stops, the completion it reports on its channel is nil
\* (it stays in the channel until the select receives it), no audit event is
\* emitted for that frame, HandleConnection returns nil and no
\* error-response is written to the client.
C14_TerminateIsCleanStop ==
    TerminateRead =>
        /\ cpc \in {"switch", "stopped"}
        /\ cpc = "stopped" =>
              /\ cerr = nil
              /\ \/ clientErrCh = <<nil>>
                 \/ clientErrCh = <<>> /\ pc \in {"deferring", "done"}
        /\ cpc = "switch" => clientErrCh = <<>>
        /\ Len(PumpEvents(audit)) = Len(SelectSeq(fromClient, NeedsAudit))
        /\ pc \in {"deferring", "done"} => ret = nil
        /\ \A i \in DOMAIN toClient : ~IsErrorResponse(toClient[i])

\* The pump read a termination frame and stopped, the select received its
\* nil completion and HandleConnection returned.
C14_Witness ==
    /\ TerminateRead
    /\ cpc = "stopped"
    /\ spc # "stopped"
    /\ ~ctxDone
    /\ clientErrCh = <<>>
    /\ pc = "done"
    /\ ret = nil

(***************************************************************************)
(* The startup phase, over every startup frame with keys and values of     *)
(* small sets, up to the connect to the database.                          *)
(***************************************************************************)
StartupKeys == {"database", "user", "application_name", "client_encoding"}

StartupValues == {"alice", "database"}

\* StartupMessage.Parameters is a Go map: any set of keys, each with one
\* value.
AllStartupMessages == UNION { [K -> StartupValues] : K \in SUBSET StartupKeys }

AllStartupFrames ==
    { [type |-> "StartupMessage", Parameters |-> p] : p \in AllStartupMessages }
    \cup CancelRequests
    \cup { [type |-> "SSLRequest"], [type |-> "GSSEncRequest"] }

NextStartup ==
    \/ InitializeConnection(AllStartupFrames)
    \/ HC_CheckAccess
    \/ HC_Activate
    \/ HC_Connect

SpecStartup == Init /\ [][NextStartup]_vars

\* The first frame was read and is a startup message.
StartupMessageRead ==
    startupFrame # NoValue /\ startupFrame.type = "StartupMessage"

\* C15: for every startup frame, after InitializeConnection the session's
\* DatabaseName and DatabaseUser are the values of the keys "database" and
\* "user" (a key the frame does not have leaves the field as the service set
\* it), the session's startup parameters are exactly the other keys with
\* their values, and the parameter map of the config replayed to the
\* database is that map, so it never has the key "database" or "user".
C15_StartupParametersSplit ==
    StartupMessageRead =>
        LET P == startupFrame.Parameters
            kept == DOMAIN P \ {"database", "user"}
            s0 == NewSession(sessionCtx.AutoCreateUser)
        IN /\ pc # "initFailed"
           /\ sessionCtx.DatabaseName =
                 IF "database" \in DOMAIN P THEN P["database"]
                 ELSE s0.DatabaseName
           /\ sessionCtx.DatabaseUser =
                 IF "user" \in DOMAIN P THEN P["user"] ELSE s0.DatabaseUser
           /\ DOMAIN sessionCtx.StartupParameters = kept
           /\ \A k \in kept : sessionCtx.StartupParameters[k] = P[k]
           /\ config # NoValue =>
                 /\ config.RuntimeParams = sessionCtx.StartupParameters
                 /\ DOMAIN config.RuntimeParams \cap {"database", "user"} = {}
                 /\ config.Database = sessionCtx.DatabaseName
                 /\ config.User = sessionCtx.DatabaseUser

\* A startup frame with the two reserved keys and two others was read, and
\* the config replayed to the database carries the two others.
C15_Witness ==
    /\ StartupMessageRead
    /\ DOMAIN startupFrame.Parameters = StartupKeys
    /\ startupFrame.Parameters["client_encoding"] = "database"
    /\ config # NoValue
    /\ DOMAIN config.RuntimeParams = {"application_name", "client_encoding"}
    /\ config.RuntimeParams["client_encoding"] = "database"
    /\ pc = "makeClientReady"

\* InitializeConnection ran and the first frame could not be read, or is
\* neither a startup message nor a cancel request.
FirstFrameRejected ==
    /\ pc # "Created"
    /\ \/ startupFrame = NoValue
       \/ startupFrame.type \notin {"StartupMessage", "CancelRequest"}

\* C16: if the first frame cannot be read, or is neither a startup message
\* nor a cancel request, InitializeConnection returns an error, the engine
\* has no cancel request, the session's database name, database user and
\* startup parameters are as the service set them, and nothing of
\* HandleConnection runs.
C16_BadFirstFrameFailsFast ==
    FirstFrameRejected =>
        /\ pc = "initFailed"
        /\ ret # NoValue /\ ret # nil
        /\ ret.wrapped
        /\ cancelReq = NoValue
        /\ sessionCtx = NewSession(sessionCtx.AutoCreateUser)
        /\ calls = <<>>
        /\ audit = <<>>
        /\ accessErr = NoValue

\* The first frame was an SSL request: InitializeConnection returned the
\* bad-parameter error.
C16_Witness ==
    /\ pc = "initFailed"
    /\ startupFrame = [type |-> "SSLRequest"]
    /\ ret = NewTraceErr("BadParameter")
    /\ cancelReq = NoValue

(***************************************************************************)
(* The audit rendering of parameters: the client pump with a bind or       *)
(* function-call frame it has just read, over parameters and format codes  *)
(* of small sets.                                                          *)
(***************************************************************************)
\* Parameters of a frame, and format codes up to one more than that.
MaxParams == 2

\* Parameter values ([]byte): the text "1", two bytes that are no text, and
\* the bytes of the text "<binary>".
ParamValues == { <<49>>, <<0, 255>>, BinaryPlaceholder }

\* Bind.ParameterFormatCodes is []int16, FunctionCall.ArgFormatCodes is
\* []uint16.
BindFormatCodes == {0, 1, 2}

FuncFormatCodes == {0, 1, 65535}

SeqsUpTo(S, n) == UNION { [1..k -> S] : k \in 0..n }

FormatMessages ==
    { [type |-> "Bind", PreparedStatement |-> "s1", DestinationPortal |-> "p1",
       Parameters |-> ps, ParameterFormatCodes |-> fcs] :
         ps \in SeqsUpTo(ParamValues, MaxParams),
         fcs \in SeqsUpTo(BindFormatCodes, MaxParams + 1) }
    \cup
    { [type |-> "FunctionCall", Function |-> 1598, Arguments |-> ps,
       ArgFormatCodes |-> fcs] :
         ps \in SeqsUpTo(ParamValues, MaxParams),
         fcs \in SeqsUpTo(FuncFormatCodes, MaxParams + 1) }

\* The relay with the client pump holding the frame client.Receive has just
\* returned (line 498).
InitFormat ==
    \E m \in FormatMessages :
        /\ pc = "select"
        /\ ret = NoValue
        /\ defers = <<"Deactivate", "OnSessionEnd", "serverConn.Close">>
        /\ sessionCtx =
             [ Identity          |-> [Username |-> TeleportUser],
               AutoCreateUser    |-> FALSE,
               DatabaseName      |-> "app",
               DatabaseUser      |-> "bob",
               StartupParameters |-> EmptyMap ]
        /\ cancelReq = NoValue
        /\ hijackedConn =
             [PID |-> 7, SecretKey |-> 8, ParameterStatuses |-> EmptyMap]
        /\ backend = "open"
        /\ lease = "released"
        /\ calls = <<"GetAuthPreference", "CheckAccess", "Activate",
                     "getConnectConfig", "ConnectConfig",
                     "cancelAutoUserLease", "Construct">>
        /\ audit = <<SessionStartEvent(nil)>>
        /\ toClient = makeClientReady(hijackedConn, <<>>)
        /\ toServer = <<>>
        /\ fromClient = <<m>>
        /\ fromServer = <<>>
        /\ clientErrCh = <<>>
        /\ serverErrCh = <<>>
        /\ cpc = "switch"
        /\ cmsg = m
        /\ spc = "receive"
        /\ smsg = NoValue
        /\ serr = nil
        /\ cerr = nil
        /\ ctxDone = FALSE
        /\ accessErr = nil
        /\ cancelRead = NoValue
        /\ startupFrame =
             [ type |-> "StartupMessage",
               Parameters |-> [k \in {"database", "user"} |->
                                 IF k = "database" THEN "app" ELSE "bob"] ]
        /\ config = getConnectConfig(sessionCtx)
        /\ engines = <<>>
        /\ cloud = NoValue

NextFormat ==
    \/ ClientSwitch
    \/ ClientSend

SpecFormat == InitFormat /\ [][NextFormat]_vars

\* The parameters and the format codes (as int16) of a bind or
\* function-call frame.
ParamsOf(m) == IF m.type = "Bind" THEN m.Parameters ELSE m.Arguments

CodesOf(m) ==
    IF m.type = "Bind" THEN m.ParameterFormatCodes
    ELSE [i \in 1..Len(m.ArgFormatCodes) |-> Int16(m.ArgFormatCodes[i])]

\* The parameter list of a bind or function-call audit event.
RenderedOf(e) == IF e.kind = "bind" THEN e.Parameters ELSE e.FunctionArgs

\* C17: for every bind or function-call frame whose format codes match its
\* parameters one-to-one, the audit event of the frame has one rendering
\* per parameter, in order: the placeholder "<binary>", whatever the bytes,
\* at each position with code 1, and the bytes themselves as text at each
\* position with code 0.
C17_BinaryRenderedAsPlaceholder ==
    (cpc # "switch" /\ Len(CodesOf(cmsg)) = Len(ParamsOf(cmsg))) =>
        /\ Len(PumpEvents(audit)) = 1
        /\ LET ev == PumpEvents(audit)[1]
               r == RenderedOf(ev)
           IN /\ ev.kind = AuditKind(cmsg)
              /\ Len(r) = Len(ParamsOf(cmsg))
              /\ \A i \in 1..Len(r) :
                   /\ CodesOf(cmsg)[i] = 1 => r[i] = BinaryPlaceholder
                   /\ CodesOf(cmsg)[i] = 0 => r[i] = ParamsOf(cmsg)[i]

\* A bind frame with a text and a binary parameter was audited: the text as
\* it is, the binary one as the placeholder and not as its bytes.
C17_Witness ==
    /\ cpc = "receive"
    /\ cmsg.type = "Bind"
    /\ cmsg.Parameters = << <<49>>, <<0, 255>> >>
    /\ cmsg.ParameterFormatCodes = <<0, 1>>
    /\ Len(PumpEvents(audit)) = 1
    /\ PumpEvents(audit)[1].Parameters = << <<49>>, BinaryPlaceholder >>
    /\ toServer = <<cmsg>>

\* The frame the pump holds has a non-zero number of format codes that
\* differs from its number of parameters.
CodesMismatch ==
    /\ Len(CodesOf(cmsg)) # 0
    /\ Len(CodesOf(cmsg)) # Len(ParamsOf(cmsg))

\* C18: when a bind or function-call frame has a non-zero number of format
\* codes that differs from its number of parameters, its audit event is
\* still emitted, with an empty parameter list, the pump goes on to send the
\* frame to the backend, and once the frame is sent the pump is back at its
\* read with nothing reported on its channel: only a failed write stops it.
C18_CodeMismatchTolerated ==
    CodesMismatch =>
        /\ cpc \in {"switch", "send", "receive", "stopped"}
        /\ cpc = "switch" => PumpEvents(audit) = <<>>
        /\ cpc # "switch" =>
              /\ Len(PumpEvents(audit)) = 1
              /\ PumpEvents(audit)[1].kind = AuditKind(cmsg)
              /\ RenderedOf(PumpEvents(audit)[1]) = <<>>
        /\ cpc \in {"switch", "send"} => toServer = <<>> /\ clientErrCh = <<>>
        /\ cpc = "receive" => toServer = <<cmsg>> /\ clientErrCh = <<>>
        /\ cpc = "stopped" =>
              /\ cerr = Err("write")
              /\ clientErrCh = <<Err("write")>>
              /\ toServer = <<>>

\* A function call with one argument and two format codes was audited with
\* no arguments and forwarded, and the pump is reading again.
C18_Witness ==
    /\ CodesMismatch
    /\ cmsg.type = "FunctionCall"
    /\ cmsg.Arguments = << <<0, 255>> >>
    /\ cmsg.ArgFormatCodes = <<1, 1>>
    /\ cpc = "receive"
    /\ toServer = <<cmsg>>
    /\ PumpEvents(audit) = <<[kind |-> "funccall", FunctionOID |-> 1598,
                              FunctionArgs |-> <<>>]>>
    /\ clientErrCh = <<>>

\* Activate was called and returned an error: there is no lease.
ActivateFailed == Count(calls, "Activate") = 1 /\ lease = "none"

\* C19: if Activate returns an error, HandleConnection returns that error
\* at once: the backend is never dialed, no Ready frame is sent to the
\* client, no session-start and no session-end event is emitted, Deactivate
\* is not called and the pumps never start.
C19_ProvisioningFailureStopsEarly ==
    ActivateFailed =>
        /\ pc = "done"
        /\ ret = Wrap(Err("Activate"))
        /\ calls[Len(calls)] = "Activate"
        /\ Count(calls, "getConnectConfig") = 0
        /\ Count(calls, "ConnectConfig") = 0
        /\ Count(calls, "Deactivate") = 0
        /\ config = NoValue
        /\ hijackedConn = NoValue
        /\ backend = "none"
        /\ toServer = <<>>
        /\ SelectSeq(toClient, IsReadyFrame) = <<>>
        /\ audit = <<>>
        /\ cpc = "idle" /\ spc = "idle"

\* Activate failed, HandleConnection returned its error and the error
\* response is all the client was sent.
C19_Witness ==
    /\ ActivateFailed
    /\ pc = "done"
    /\ accessErr = nil
    /\ toClient = <<toErrorResponse(Wrap(Err("Activate")))>>

(***************************************************************************)
(* SendError over the errors a failed Activate can hand to                 *)
(* HandleConnection: plain errors and *pgconn.PgError values whose text    *)
(* names hosts, accounts and driver detail.                                *)
(***************************************************************************)
InternalHosts == {"db-1.internal:5432", "db-2.internal:5432",
                  "10.0.0.5:5432", "10.0.0.6:5432"}

InternalReasons == {"connection refused", "i/o timeout",
                    "password authentication failed for user teleport-admin",
                    "x509: certificate signed by unknown authority"}

\* The text of a dial or driver failure.
InternalDetails ==
    { (("dial tcp " \o h) \o ": ") \o r : h \in InternalHosts,
                                         r \in InternalReasons }

PgCodes == {"28P01", "42710", "53300"}

\* The errors: a plain error with its text, or an error that wraps a
\* *pgconn.PgError with the fields the database sent.
InternalErrors ==
    { [kind |-> "Activate", converted |-> FALSE, wrapped |-> FALSE,
       detail |-> d] : d \in InternalDetails }
    \cup
    { [kind |-> "Activate", converted |-> FALSE, wrapped |-> FALSE,
       detail |-> d,
       pg |-> [Severity |-> "ERROR", Code |-> c,
               Message |-> "could not provision user", Detail |-> d]] :
         d \in InternalDetails, c \in PgCodes }

\* HandleConnection has returned the error of a failed Activate
\* (lines 305-308).
InitError ==
    \E e \in InternalErrors :
        /\ pc = "done"
        /\ ret = Wrap(e)
        /\ defers = <<>>
        /\ sessionCtx =
             [ Identity          |-> [Username |-> TeleportUser],
               AutoCreateUser    |-> TRUE,
               DatabaseName      |-> "app",
               DatabaseUser      |-> "alice",
               StartupParameters |-> EmptyMap ]
        /\ cancelReq = NoValue
        /\ hijackedConn = NoValue
        /\ backend = "none"
        /\ lease = "none"
        /\ calls = <<"GetAuthPreference", "CheckAccess", "Activate">>
        /\ audit = <<>>
        /\ toClient = <<>>
        /\ toServer = <<>>
        /\ fromClient = <<>>
        /\ fromServer = <<>>
        /\ clientErrCh = <<>>
        /\ serverErrCh = <<>>
        /\ cpc = "idle"
        /\ cmsg = NoValue
        /\ spc = "idle"
        /\ smsg = NoValue
        /\ serr = nil
        /\ cerr = nil
        /\ ctxDone = FALSE
        /\ accessErr = nil
        /\ cancelRead = NoValue
        /\ startupFrame =
             [ type |-> "StartupMessage",
               Parameters |-> [k \in {"database", "user"} |->
                                 IF k = "database" THEN "app" ELSE "alice"] ]
        /\ config = NoValue
        /\ engines = <<>>
        /\ cloud = NoValue

NextError == SendError

SpecError == InitError /\ [][NextError]_vars

\* Two errors that differ in their internal detail only: the same failure,
\* and for a PgError the same severity, code and message.
DifferInDetailOnly(e1, e2) ==
    /\ e1.kind = e2.kind
    /\ IsPgError(e1) = IsPgError(e2)
    /\ IsPgError(e1) =>
          /\ e1.pg.Severity = e2.pg.Severity
          /\ e1.pg.Code = e2.pg.Code
          /\ e1.pg.Message = e2.pg.Message

\* C20: for any two internal errors that differ in their internal detail
\* only, the error-response frame SendError writes is the same: the frame
\* written for the error HandleConnection returned is the frame that would
\* be written for every other error of the same failure.
C20_ErrorResponseHidesDetail ==
    (pc = "done" /\ toClient # <<>> /\ IsErrorResponse(Last(toClient))) =>
        \A e \in InternalErrors :
            DifferInDetailOnly(ret, e) =>
                toErrorResponse(Wrap(e)) = Last(toClient)

\* HandleConnection returned an error of the stage that establishes the
\* backend connection: connect failed on the normal path; the dial, the TLS
\* upgrade or the send of the cancel frame failed on the cancel path.
ConnectStageFailed ==
    /\ pc \in {"deferring", "done"}
    /\ ret # NoValue /\ ret # nil
    /\ \/ /\ ~CancelPath
          /\ Count(calls, "getConnectConfig") = 1
          /\ hijackedConn = NoValue
       \/ /\ CancelPath
          /\ Count(calls, "DialContext") = 1
          /\ cancelRead = NoValue

\* C21 (as stated): every error HandleConnection returns from that stage
\* has been translated by ConvertConnectError.
C21_EveryConnectErrorConverted ==
    ConnectStageFailed => ret.converted

\* C21 (amended): of the errors HandleConnection returns from that stage,
\* those of the driver connect (normal path) and of the dial and the TLS
\* upgrade (cancel path) have been translated by ConvertConnectError; those
\* of getConnectConfig, of Hijack and of the send of the cancel frame are
\* returned wrapped by trace.Wrap, untranslated.
C21_DialErrorsConverted ==
    ConnectStageFailed =>
        /\ ret.wrapped
        /\ ret.converted <=>
              IF CancelPath
              THEN \/ ret.kind \in {"dial", "read",
                                    "server refused TLS connection"}
                   \/ ret.kind = "write" /\ toServer = <<>>
              ELSE ret.kind = "connect"
        /\ ~ret.converted =>
              IF CancelPath
              THEN ret.kind = "write" /\ toServer = <<[type |-> "SSLRequest"]>>
              ELSE ret.kind \in {"getConnectConfig", "Hijack"}

\* Hijack failed after a successful driver connect and HandleConnection
\* returned its error untranslated.
C21_Witness ==
    /\ ConnectStageFailed
    /\ ~CancelPath
    /\ pc = "done"
    /\ backend = "open"
    /\ ret = Wrap(Err("Hijack"))
    /\ ~ret.converted

\* Auto-provisioning is enabled and the requested database user is not the
\* Teleport user.
ProvisionedUserMismatch ==
    /\ sessionCtx.AutoCreateUser
    /\ sessionCtx.DatabaseUser # sessionCtx.Identity.Username

\* C22: when auto-provisioning is enabled for the session, Activate is
\* called and the backend is dialed (by connect or by the cancel dial) only
\* if the requested database user equals the Teleport user name; a
\* mismatch is rejected as access denied by checkAccess, before its other
\* checks, and HandleConnection returns that error.
C22_ProvisionedUserMustMatch ==
    ProvisionedUserMismatch =>
        /\ Count(calls, "Activate") = 0
        /\ Count(calls, "getConnectConfig") = 0
        /\ Count(calls, "ConnectConfig") = 0
        /\ Count(calls, "DialContext") = 0
        /\ backend = "none"
        /\ lease = "none"
        /\ toServer = <<>>
        /\ pc \in {"Created", "initFailed", "checkAccess", "done"}
        /\ pc = "done" =>
              /\ accessErr = NewTraceErr("AccessDenied: use your Teleport username")
              /\ ret = accessErr
              /\ calls = <<>>

\* A startup frame asked for user bob with auto-provisioning enabled for
\* alice: the run was denied and the client was sent the error.
C22_Witness ==
    /\ ProvisionedUserMismatch
    /\ StartupMessageRead
    /\ startupFrame.Parameters["user"] = "bob"
    /\ pc = "done"
    /\ ret.kind = "AccessDenied: use your Teleport username"
    /\ Len(toClient) = 1
    /\ IsErrorResponse(toClient[1])

\* C23: on the cancel path all the engine sends to the backend is an SSL
\* request and then, only when the TLS upgrade succeeded, one cancel frame
\* with the process id and the secret of the cancel request the client
\* sent; the driver connect, which sends a startup message, is never
\* called, and when the backend refuses TLS the SSL request is all that
\* was sent.
C23_CancelFrameVerbatimAfterTLS ==
    CancelPath =>
        /\ Count(calls, "getConnectConfig") = 0
        /\ Count(calls, "ConnectConfig") = 0
        /\ hijackedConn = NoValue
        /\ \/ toServer = <<>>
           \/ toServer = <<[type |-> "SSLRequest"]>>
           \/ toServer = <<[type |-> "SSLRequest"], cancelReq>>
        /\ toServer # <<>> =>
              /\ Count(calls, "DialContext") = 1
              /\ backend = "open"
        /\ Len(toServer) = 2 =>
              /\ toServer[2].type = "CancelRequest"
              /\ toServer[2].ProcessID = cancelReq.ProcessID
              /\ toServer[2].SecretKey = cancelReq.SecretKey
              /\ cancelRead # NoValue
        /\ (pc = "done" /\ ret # nil /\ ret.converted /\ backend = "open")
              => Len(toServer) <= 1
        /\ (pc = "done" /\ ret # nil
              /\ ret.kind = "server refused TLS connection")
              => toServer = <<[type |-> "SSLRequest"]>>

\* The cancel request with PID 42 and secret 99 was sent after the SSL
\* request, and the backend closed the connection.
C23_Witness ==
    /\ CancelPath
    /\ pc = "done"
    /\ toServer = <<[type |-> "SSLRequest"],
                    [type |-> "CancelRequest", ProcessID |-> 42,
                     SecretKey |-> 99]>>
    /\ cancelRead = [n |-> 0, err |-> EOF]
    /\ ret = nil

\* The place of the one x in seq.
Pos(seq, x) == CHOOSE i \in DOMAIN seq : seq[i] = x

\* The successful session-start events emitted.
StartedEvents == SelectSeq(audit, LAMBDA e : e = SessionStartEvent(nil))

\* C24: on the non-cancel path the authorization check, Activate, the
\* backend dial, the Ready frames, the successful session-start event and
\* the start of the pumps each happen at most once and in that order, and
\* each only when every step before it succeeded: Activate after an
\* allowed CheckAccess, the dial with Activate's lease taken, the Ready
\* frames after a successful connect, the session-start after the whole
\* Ready sequence, the pumps after the session-start.
C24_StepsInOrder ==
    ~CancelPath =>
        /\ Count(calls, "CheckAccess") <= 1
        /\ Count(calls, "Activate") <= 1
        /\ Count(calls, "getConnectConfig") <= 1
        /\ Count(calls, "ConnectConfig") <= 1
        /\ Count(calls, "Construct") <= 1
        /\ Len(StartedEvents) <= 1
        /\ Len(SelectSeq(toClient, LAMBDA m : m.type = "ReadyForQuery")) <= 1
        /\ Count(calls, "Activate") = 1 =>
              /\ accessErr = nil
              /\ Count(calls, "CheckAccess") = 1
              /\ Pos(calls, "CheckAccess") < Pos(calls, "Activate")
        /\ Count(calls, "getConnectConfig") = 1 =>
              /\ Count(calls, "Activate") = 1
              /\ lease # "none"
              /\ Pos(calls, "Activate") < Pos(calls, "getConnectConfig")
        /\ Count(calls, "ConnectConfig") = 1 =>
              /\ config # NoValue
              /\ Pos(calls, "getConnectConfig") < Pos(calls, "ConnectConfig")
        /\ SelectSeq(toClient, IsReadyFrame) # <<>> =>
              /\ Count(calls, "ConnectConfig") = 1
              /\ hijackedConn # NoValue
        /\ StartedEvents # <<>> =>
              /\ hijackedConn # NoValue
              /\ Len(SelectSeq(toClient, IsReadyFrame))
                    = Cardinality(DOMAIN hijackedConn.ParameterStatuses) + 3
              /\ audit[1] = SessionStartEvent(nil)
        /\ Count(calls, "Construct") = 1 => StartedEvents # <<>>
        /\ PumpsStarted =>
              /\ StartedEvents # <<>>
              /\ Count(calls, "Construct") = 1
        /\ (cpc # "idle" \/ spc # "idle") => PumpsStarted

\* Every step was taken, and the pumps have forwarded a frame each way.
C24_Witness ==
    /\ ~CancelPath
    /\ calls = <<"GetAuthPreference", "CheckAccess", "Activate",
                 "getConnectConfig", "ConnectConfig", "cancelAutoUserLease",
                 "Construct">>
    /\ audit[1] = SessionStartEvent(nil)
    /\ Len(toServer) = 1
    /\ Len(fromServer) = 1
    /\ Len(SelectSeq(toClient, IsReadyFrame)) + 1 = Len(toClient)

\* C25 (as stated): whenever the engine changes the Session Context it is
\* in InitializeConnection and only the startup-parameter map changes.
C25_OnlyStartupParametersChange ==
    [][ sessionCtx' # sessionCtx =>
          /\ pc = "Created"
          /\ sessionCtx'.Identity = sessionCtx.Identity
          /\ sessionCtx'.AutoCreateUser = sessionCtx.AutoCreateUser
          /\ sessionCtx'.DatabaseName = sessionCtx.DatabaseName
          /\ sessionCtx'.DatabaseUser = sessionCtx.DatabaseUser ]_vars

\* C25 (amended): the engine changes the Session Context only in
\* InitializeConnection, while parsing a startup message, and what it
\* changes there is the database name, the database user and the
\* startup-parameter map, from the keys of the frame; the identity and the
\* auto-provisioning flag never change, and HandleConnection and both
\* pumps leave every field as it is.
C25_SessionChangesOnlyAtStartup ==
    [][ /\ sessionCtx'.Identity = sessionCtx.Identity
        /\ sessionCtx'.AutoCreateUser = sessionCtx.AutoCreateUser
        /\ pc # "Created" => sessionCtx' = sessionCtx
        /\ sessionCtx' # sessionCtx =>
              /\ pc = "Created"
              /\ startupFrame'.type = "StartupMessage"
              /\ sessionCtx'.DatabaseName = startupFrame'.Parameters["database"]
              /\ sessionCtx'.DatabaseUser = startupFrame'.Parameters["user"]
              /\ DOMAIN sessionCtx'.StartupParameters
                    = DOMAIN startupFrame'.Parameters \ {"database", "user"} ]_vars

\* A run set the database name, the database user and a startup parameter
\* from its startup frame and went through HandleConnection to the relay
\* with the session as InitializeConnection left it.
C25_Witness ==
    /\ pc = "done"
    /\ PumpsStarted
    /\ sessionCtx.DatabaseName = "app"
    /\ sessionCtx.DatabaseUser = "alice"
    /\ DOMAIN sessionCtx.StartupParameters = {"application_name"}
    /\ sessionCtx.StartupParameters = config.RuntimeParams
    /\ fromClient # <<>>
    /\ fromServer # <<>>

\* A frame the backend-to-client pump wrote to the client: neither a Ready
\* frame of makeClientReady nor SendError's error response.
IsRelayedFrame(m) == ~IsReadyFrame(m) /\ ~IsErrorResponse(m)

\* C26: the frames the backend-to-client pump has sent to the client are
\* the frames it received from the backend, unmodified, in order and each
\* once: always a prefix of the frames received, all of them when the pump
\* is at its read, all but the one in hand when it is about to send, and
\* never more than one short.
C26_BackendFramesRelayedInOrder ==
    LET relayed == SelectSeq(toClient, IsRelayedFrame) IN
    /\ Len(relayed) <= Len(fromServer)
    /\ Len(relayed) >= Len(fromServer) - 1
    /\ relayed = SubSeq(fromServer, 1, Len(relayed))
    /\ spc \in {"receive", "receiveFailed"} => relayed = fromServer
    /\ spc = "send" =>
          /\ relayed = Front(fromServer)
          /\ smsg = Last(fromServer)
    /\ Len(relayed) < Len(fromServer) =>
          \/ spc = "send"
          \/ spc = "stopped" /\ serr = Err("write")

\* Three frames of the backend were relayed to the client in the order
\* they came.
C26_Witness ==
    /\ Len(fromServer) = 3
    /\ fromServer[1].type = "DataRow"
    /\ fromServer[2].type = "DataRow"
    /\ fromServer[3].type = "CommandComplete"
    /\ SelectSeq(toClient, IsRelayedFrame) = fromServer
    /\ spc = "receive"

\* The positions of a pump that is running: started and not yet stopped.
PumpRunning(p) == p \notin {"idle", "stopped"}

\* Capacity of clientErrCh and serverErrCh (make(chan error, 1)).
ErrChCapacity == 1

\* What one step may do to a pump and its channel: the pump stops exactly
\* when it writes one value to its own channel, a stopped pump stays
\* stopped and writes nothing more, and the only other change of a channel
\* is the receive of HandleConnection's select.
PumpChannelStep(p, pNext, ch, chNext) ==
    /\ (PumpRunning(p) /\ pNext = "stopped") =>
          /\ Len(chNext) = Len(ch) + 1
          /\ SubSeq(chNext, 1, Len(ch)) = ch
    /\ p = "stopped" => pNext = "stopped"
    /\ chNext # ch =>
          \/ PumpRunning(p) /\ pNext = "stopped"
          \/ pc = "select" /\ ch # <<>> /\ chNext = Tail(ch)

\* C27: each relay pump writes exactly one completion value, to its own
\* channel and never to the other pump's, and stops with that write; a
\* running pump's channel is empty, so the write to the channel of capacity
\* one never blocks, whether or not HandleConnection is still receiving.
C27_OneCompletionPerPump ==
    /\ [](/\ PumpRunning(cpc) => clientErrCh = <<>>
          /\ PumpRunning(spc) => serverErrCh = <<>>
          /\ Len(clientErrCh) <= ErrChCapacity
          /\ Len(serverErrCh) <= ErrChCapacity)
    /\ [][ /\ PumpChannelStep(cpc, cpc', clientErrCh, clientErrCh')
           /\ PumpChannelStep(spc, spc', serverErrCh, serverErrCh') ]_vars

\* HandleConnection returned at the cancelled context without receiving
\* from either channel, and both pumps have written their completion and
\* stopped.
C27_Witness ==
    /\ pc = "done"
    /\ ctxDone
    /\ cpc = "stopped"
    /\ spc = "stopped"
    /\ Len(clientErrCh) = 1
    /\ Len(serverErrCh) = 1

(***************************************************************************)
(* Several engines sharing the provisioning budget: each runs lines        *)
(* 305-323 of HandleConnection for a connection of its own.                *)
(***************************************************************************)
\* Engines running HandleConnection at the same time.
NumEngines == 4

\* Leases of the provisioning semaphore that Activate acquires.
MaxLeases == 2

EngineIds == 1..NumEngines

\* Everything but the engines sharing the budget.
connectionVars ==
    <<pc, ret, defers, sessionCtx, cancelReq, hijackedConn, backend, lease,
      calls, audit, toClient, toServer, fromClient, fromServer, clientErrCh,
      serverErrCh, cpc, cmsg, spc, smsg, serr, cerr, ctxDone, accessErr,
      cancelRead, startupFrame, config, cloud>>

\* The engines holding a lease of the semaphore.
LeaseHolders == {e \in DOMAIN engines : engines[e].lease = "held"}

\* Every engine has passed checkAccess (line 294) and is about to call
\* Activate.
InitLease ==
    /\ engines = [e \in EngineIds |->
                    [pc |-> "accessOk", lease |-> "none", ret |-> NoValue]]
    /\ cloud = NoValue
    /\ pc = "Created"
    /\ ret = NoValue
    /\ defers = <<>>
    /\ sessionCtx = NewSession(TRUE)
    /\ cancelReq = NoValue
    /\ hijackedConn = NoValue
    /\ backend = "none"
    /\ lease = "none"
    /\ calls = <<>>
    /\ audit = <<>>
    /\ toClient = <<>>
    /\ toServer = <<>>
    /\ fromClient = <<>>
    /\ fromServer = <<>>
    /\ clientErrCh = <<>>
    /\ serverErrCh = <<>>
    /\ cpc = "idle"
    /\ cmsg = NoValue
    /\ spc = "idle"
    /\ smsg = NoValue
    /\ serr = nil
    /\ cerr = nil
    /\ ctxDone = FALSE
    /\ accessErr = nil
    /\ cancelRead = NoValue
    /\ startupFrame = NoValue
    /\ config = NoValue

\* Line 306, Activate returning a lease: it blocks while the semaphore has
\* no free lease.
Engine_Activate(e) ==
    /\ engines[e].pc = "accessOk"
    /\ Cardinality(LeaseHolders) < MaxLeases
    /\ engines' = [engines EXCEPT ![e].lease = "held", ![e].pc = "connect"]
    /\ UNCHANGED connectionVars

\* Lines 306-309, Activate returning an error: no lease, and
\* HandleConnection returns.
Engine_ActivateFails(e) ==
    /\ engines[e].pc = "accessOk"
    /\ engines' = [engines EXCEPT ![e].pc = "done",
                                  ![e].ret = Wrap(Err("Activate"))]
    /\ UNCHANGED connectionVars

\* Lines 317-323 with the lease released on the success path only.
Engine_Connect_KeepsLeaseOnError(e) ==
    /\ engines[e].pc = "connect"
    /\ \E err \in {nil, ConvertConnectError(Err("connect"))} :
         engines' = [engines EXCEPT
                        ![e].lease = IF err # nil THEN @ ELSE "released",
                        ![e].pc = IF err # nil THEN "done"
                                  ELSE "makeClientReady",
                        ![e].ret = IF err # nil THEN Wrap(err) ELSE @]
    /\ UNCHANGED connectionVars

\* Lines 317-323: connect, and cancelAutoUserLease() on both paths.
Engine_Connect(e) ==
    /\ engines[e].pc = "connect"
    /\ \E err \in {nil, ConvertConnectError(Err("connect"))} :
         engines' = [engines EXCEPT
                        ![e].lease = "released",
                        ![e].pc = IF err # nil THEN "done"
                                  ELSE "makeClientReady",
                        ![e].ret = IF err # nil THEN Wrap(err) ELSE @]
    /\ UNCHANGED connectionVars

\* Lines 326-363: the rest of the run, which does not touch the lease.
Engine_Session(e) ==
    /\ engines[e].pc = "makeClientReady"
    /\ \E err \in {nil, Err("write")} :
         engines' = [engines EXCEPT ![e].pc = "done", ![e].ret = Wrap(err)]
    /\ UNCHANGED connectionVars

NextLease ==
    \E e \in EngineIds :
        \/ Engine_Activate(e)
        \/ Engine_ActivateFails(e)
        \/ Engine_Connect(e)
        \/ Engine_Session(e)

\* Every HandleConnection runs in a goroutine of its own: an Activate that
\* can take a lease takes it, and a connect attempt returns.  A session may
\* last forever.
FairLease ==
    \A e \in EngineIds :
        /\ WF_vars(Engine_Activate(e))
        /\ WF_vars(Engine_Connect(e))

SpecLease == InitLease /\ [][NextLease]_vars /\ FairLease

\* C28: with the engines sharing a budget of MaxLeases leases, the engines
\* between a successful Activate and their lease release are exactly the
\* lease holders and never more than MaxLeases; an engine whose connect
\* attempt has finished, on either path, holds no lease; and an engine
\* waiting in Activate does not wait forever.
C28_LeaseBudgetNeverStarves ==
    /\ [](/\ Cardinality(LeaseHolders) <= MaxLeases
          /\ \A e \in EngineIds :
                /\ engines[e].lease = "held" <=> engines[e].pc = "connect"
                /\ engines[e].pc \in {"makeClientReady", "done"} =>
                      engines[e].lease \in {"none", "released"}
                /\ engines[e].lease = "released" =>
                      engines[e].pc \in {"makeClientReady", "done"})
    /\ \A e \in EngineIds :
          (engines[e].pc = "accessOk") ~> (engines[e].pc # "accessOk")

\* The budget is exhausted, one engine waits in Activate, and one engine
\* released its lease when its connect attempt failed.
C28_Witness ==
    /\ engines # <<>>
    /\ Cardinality(LeaseHolders) = MaxLeases
    /\ \E e \in EngineIds : engines[e].pc = "accessOk"
    /\ \E e \in EngineIds :
          /\ engines[e].pc = "done"
          /\ engines[e].lease = "released"
          /\ engines[e].ret = Wrap(ConvertConnectError(Err("connect")))

(***************************************************************************)
(* connect for every type of database: getConnectConfig with its type      *)
(* switch, and the driver's connection attempts.                           *)
(***************************************************************************)
\* sessionCtx.Database.GetType() (line 646).
DatabaseTypes ==
    {"self-hosted", "rds", "rdsproxy", "redshift", "redshift-serverless",
     "gcp", "azure"}

\* The fallback configs pgconn.ParseConfig adds to a config: a retry
\* without TLS (lines 638-640).
DriverFallbacks == <<"non-TLS">>

\* pgconn.ParseConfig of the database URI (line 626).
ParseConfig ==
    [ User          |-> "",
      Database      |-> "",
      Password      |-> "",
      TLSConfig     |-> NoValue,
      Fallbacks     |-> DriverFallbacks,
      RuntimeParams |-> EmptyMap ]

\* trace.IsAccessDenied (line 675).
IsAccessDenied(err) == err.kind = "AccessDenied"

\* What cloud.GetGCPRequireSSL may return (line 674): the setting of the
\* instance, or false with an error.
RequireSSLResults ==
    { [value |-> TRUE, err |-> nil],
      [value |-> FALSE, err |-> nil],
      [value |-> FALSE, err |-> NewTraceErr("AccessDenied")],
      [value |-> FALSE, err |-> Err("GetGCPRequireSSL")] }

\* The outcomes of the calls made by connect and getConnectConfig.
CloudEnvs ==
    [ parseErr     : {nil, Err("ParseConfig")},
      tlsErr       : {nil, Err("GetTLSConfig")},
      tokenErr     : {nil, Err("auth token")},
      gcpClientErr : {nil, Err("GetGCPSQLAdminClient")},
      requireSSL   : RequireSSLResults,
      certErr      : {nil, Err("AppendGCPClientCert")},
      dialErr      : {nil, Err("connect")},
      hijackErr    : {nil, Err("Hijack")} ]

\* return nil, trace.Wrap(err) and return config, nil of getConnectConfig,
\* with the calls made so far.
ConfigFailed(err, made) ==
    [config |-> NoValue, err |-> Wrap(err), calls |-> made]

ConfigBuilt(cfg, made) == [config |-> cfg, err |-> nil, calls |-> made]

\* Lines 662-685 aborting on every error of the require-SSL query.
cloudSQLConfig_AbortsOnAccessDenied(cfg, env, made) ==
    LET c1 == Append(made, "GetCloudSQLAuthToken")
        c2 == Append(c1, "GetGCPSQLAdminClient")
        c3 == Append(c2, "GetGCPRequireSSL")
        c4 == Append(c3, "AppendGCPClientCert")
        withToken == [cfg EXCEPT !.Password = "token"]
    IN IF env.tokenErr # nil THEN ConfigFailed(env.tokenErr, c1)
       ELSE IF env.gcpClientErr # nil THEN ConfigFailed(env.gcpClientErr, c2)
       ELSE IF env.requireSSL.err # nil
       THEN ConfigFailed(env.requireSSL.err, c3)
       ELSE IF env.requireSSL.value
       THEN IF env.certErr # nil THEN ConfigFailed(env.certErr, c4)
            ELSE ConfigBuilt(
                    [withToken EXCEPT !.TLSConfig.Certificates =
                                         Append(@, "ephemeral")], c4)
       ELSE ConfigBuilt(withToken, c3)

\* getConnectConfig, lines 662-685: the Cloud SQL case of the type switch.
cloudSQLConfig(cfg, env, made) ==
    LET c1 == Append(made, "GetCloudSQLAuthToken")
        c2 == Append(c1, "GetGCPSQLAdminClient")
        c3 == Append(c2, "GetGCPRequireSSL")
        c4 == Append(c3, "AppendGCPClientCert")
        withToken == [cfg EXCEPT !.Password = "token"]
    IN IF env.tokenErr # nil THEN ConfigFailed(env.tokenErr, c1)
       ELSE IF env.gcpClientErr # nil THEN ConfigFailed(env.gcpClientErr, c2)
       ELSE IF env.requireSSL.err # nil /\ ~IsAccessDenied(env.requireSSL.err)
       THEN ConfigFailed(env.requireSSL.err, c3)
       ELSE IF env.requireSSL.value
       THEN IF env.certErr # nil THEN ConfigFailed(env.certErr, c4)
            ELSE ConfigBuilt(
                    [withToken EXCEPT !.TLSConfig.Certificates =
                                         Append(@, "ephemeral")], c4)
       ELSE ConfigBuilt(withToken, c3)

\* Lines 647-661 and 686-691: the cases that fetch a token as the password,
\* call being the Auth method and user the login name it yields.
tokenConfig(cfg, env, made, call, user) ==
    IF env.tokenErr # nil THEN ConfigFailed(env.tokenErr, Append(made, call))
    ELSE ConfigBuilt([cfg EXCEPT !.Password = "token", !.User = user],
                     Append(made, call))

\* getConnectConfig without the reset of the fallbacks (line 641).
getConnectConfigOf_KeepsFallbacks(s, env) ==
    LET c0 == <<"ParseConfig">>
        c1 == Append(c0, "GetTLSConfig")
        cfg == [ParseConfig EXCEPT
                   !.TLSConfig = [Certificates |-> <<>>],
                   !.User = s.DatabaseUser,
                   !.Database = s.DatabaseName,
                   !.RuntimeParams = s.StartupParameters]
        t == s.Database.Type
    IN IF env.parseErr # nil THEN ConfigFailed(env.parseErr, c0)
       ELSE IF env.tlsErr # nil THEN ConfigFailed(env.tlsErr, c1)
       ELSE IF t \in {"rds", "rdsproxy"}
       THEN tokenConfig(cfg, env, c1, "GetRDSAuthToken", cfg.User)
       ELSE IF t = "redshift"
       THEN tokenConfig(cfg, env, c1, "GetRedshiftAuthToken",
                        "IAM:" \o cfg.User)
       ELSE IF t = "redshift-serverless"
       THEN tokenConfig(cfg, env, c1, "GetRedshiftServerlessAuthToken",
                        "IAMR:" \o cfg.User)
       ELSE IF t = "gcp" THEN cloudSQLConfig(cfg, env, c1)
       ELSE IF t = "azure"
       THEN tokenConfig(cfg, env, c1, "GetAzureAccessToken",
                        cfg.User \o "@server")
       ELSE ConfigBuilt(cfg, c1)

\* getConnectConfig, lines 622-694, for the session s and the outcomes env
\* of its calls: the config, the error, and the calls it made.
getConnectConfigOf(s, env) ==
    LET c0 == <<"ParseConfig">>
        c1 == Append(c0, "GetTLSConfig")
        cfg == [ParseConfig EXCEPT
                   !.TLSConfig = [Certificates |-> <<>>],
                   !.User = s.DatabaseUser,
                   !.Database = s.DatabaseName,
                   !.Fallbacks = <<>>,
                   !.RuntimeParams = s.StartupParameters]
        t == s.Database.Type
    IN IF env.parseErr # nil THEN ConfigFailed(env.parseErr, c0)
       ELSE IF env.tlsErr # nil THEN ConfigFailed(env.tlsErr, c1)
       ELSE IF t \in {"rds", "rdsproxy"}
       THEN tokenConfig(cfg, env, c1, "GetRDSAuthToken", cfg.User)
       ELSE IF t = "redshift"
       THEN tokenConfig(cfg, env, c1, "GetRedshiftAuthToken",
                        "IAM:" \o cfg.User)
       ELSE IF t = "redshift-serverless"
       THEN tokenConfig(cfg, env, c1, "GetRedshiftServerlessAuthToken",
                        "IAMR:" \o cfg.User)
       ELSE IF t = "gcp" THEN cloudSQLConfig(cfg, env, c1)
       ELSE IF t = "azure"
       THEN tokenConfig(cfg, env, c1, "GetAzureAccessToken",
                        cfg.User \o "@server")
       ELSE ConfigBuilt(cfg, c1)

\* pgconn.ConnectConfig (line 442): one attempt with the config, then, if
\* that failed, one with each of its fallbacks, which drop TLS.
DialAttempts(cfg, env) ==
    <<"dial TLS">> \o
    (IF env.dialErr # nil
     THEN [i \in 1..Len(cfg.Fallbacks) |-> "dial " \o cfg.Fallbacks[i]]
     ELSE <<>>)

\* connect, lines 433-455, with getConnectConfig and the driver spelled
\* out: ConnectConfig fails when its only attempt failed, and an attempt
\* without TLS goes through.
connectDatabase(s, env) ==
    LET c == getConnectConfigOf(s, env)
        attempts == IF c.err # nil THEN <<>> ELSE DialAttempts(c.config, env)
        r == connect([configErr  |-> c.err,
                      connectErr |-> IF Len(attempts) > 1 THEN nil
                                     ELSE env.dialErr,
                      hijackErr  |-> env.hijackErr,
                      conn       |-> CHOOSE h \in HijackedConns :
                                        h.ParameterStatuses = EmptyMap])
    IN [ err          |-> r.err,
         hijackedConn |-> r.hijackedConn,
         backend      |-> r.backend,
         config       |-> c.config,
         calls        |-> IF c.err # nil
                          THEN <<"getConnectConfig">> \o c.calls
                          ELSE (<<"getConnectConfig">> \o c.calls)
                                  \o (<<"ConnectConfig">> \o attempts) ]

\* HandleConnection, lines 316-323, with connect spelled out.
HC_ConnectDatabase ==
    /\ pc = "connect"
    /\ LET r == connectDatabase(sessionCtx, cloud) IN
         /\ calls' = (calls \o r.calls) \o <<"cancelAutoUserLease">>
         /\ lease' = "released"
         /\ hijackedConn' = r.hijackedConn
         /\ config' = r.config
         /\ backend' = r.backend
         /\ IF r.err # nil
            THEN Return(Wrap(r.err), defers)
            ELSE pc' = "makeClientReady" /\ UNCHANGED <<ret, defers>>
    /\ UNCHANGED <<sessionCtx, cancelReq, audit, toClient, toServer,
                   fromClient, fromServer, clientErrCh, serverErrCh, cpc,
                   cmsg, spc, smsg, serr, ctxDone, cerr, accessErr,
                   cancelRead, startupFrame, engines, cloud>>

\* HandleConnection is about to call connect (line 317), for a database of
\* any type and any outcome of the calls connect makes.
InitConnect ==
    \E t \in DatabaseTypes, env \in CloudEnvs :
        /\ pc = "connect"
        /\ ret = NoValue
        /\ defers = <<"Deactivate">>
        /\ sessionCtx =
             [ Identity          |-> [Username |-> TeleportUser],
               AutoCreateUser    |-> TRUE,
               Database          |-> [Type |-> t],
               DatabaseName      |-> "app",
               DatabaseUser      |-> "alice",
               StartupParameters |->
                  [k \in {"application_name"} |-> "psql"] ]
        /\ cancelReq = NoValue
        /\ hijackedConn = NoValue
        /\ backend = "none"
        /\ lease = "held"
        /\ calls = <<"GetAuthPreference", "CheckAccess", "Activate">>
        /\ audit = <<>>
        /\ toClient = <<>>
        /\ toServer = <<>>
        /\ fromClient = <<>>
        /\ fromServer = <<>>
        /\ clientErrCh = <<>>
        /\ serverErrCh = <<>>
        /\ cpc = "idle"
        /\ cmsg = NoValue
        /\ spc = "idle"
        /\ smsg = NoValue
        /\ serr = nil
        /\ cerr = nil
        /\ ctxDone = FALSE
        /\ accessErr = nil
        /\ cancelRead = NoValue
        /\ startupFrame =
             [ type |-> "StartupMessage",
               Parameters |->
                 [k \in {"database", "user", "application_name"} |->
                     IF k = "database" THEN "app"
                     ELSE IF k = "user" THEN "alice" ELSE "psql"] ]
        /\ config = NoValue
        /\ engines = <<>>
        /\ cloud = env

NextConnect ==
    \/ HC_ConnectDatabase
    \/ RunDefer

SpecConnect == InitConnect /\ [][NextConnect]_vars

\* connect was called, built its config, and the TLS attempt failed.
DialFailed ==
    /\ pc # "connect"
    /\ cloud # NoValue
    /\ Count(calls, "ConnectConfig") > 0
    /\ cloud.dialErr # nil

\* C29: for a database of any type, a run makes at most one call of
\* ConnectConfig and at most one connection attempt, never one without
\* TLS; the config it builds has no fallbacks; and when the attempt fails,
\* HandleConnection returns the converted error with nothing but the lease
\* release and the deferred calls after the attempt.
C29_OneConnectAttemptNoFallback ==
    /\ Count(calls, "getConnectConfig") <= 1
    /\ Count(calls, "ConnectConfig") <= 1
    /\ Count(calls, "dial TLS") <= 1
    /\ Count(calls, "dial non-TLS") = 0
    /\ config # NoValue => config.Fallbacks = <<>>
    /\ DialFailed =>
          /\ pc \in {"deferring", "done"}
          /\ ret = ConvertConnectError(cloud.dialErr)
          /\ backend = "none"
          /\ hijackedConn = NoValue
          /\ \A i \in 1..Len(calls) :
                (i > Pos(calls, "dial TLS")) =>
                    calls[i] \in {"cancelAutoUserLease", "Deactivate"}

\* The one TLS attempt to a Cloud SQL database failed and HandleConnection
\* returned its error.
C29_Witness ==
    /\ DialFailed
    /\ pc = "done"
    /\ sessionCtx.Database.Type = "gcp"
    /\ Count(calls, "dial TLS") = 1
    /\ config.Fallbacks = <<>>
    /\ ret.converted

\* getConnectConfig asked whether the instance requires SSL.
RequireSSLQueried == Count(calls, "GetGCPRequireSSL") > 0

\* The config carries a client certificate.
ClientCertAttached ==
    /\ config # NoValue
    /\ config.TLSConfig.Certificates # <<>>

\* getConnectConfig failed with err: no config, no connection attempt, and
\* HandleConnection returns the error.
ConfigAbortedWith(err) ==
    /\ config = NoValue
    /\ Count(calls, "ConnectConfig") = 0
    /\ pc \in {"deferring", "done"}
    /\ ret = Wrap(err)

\* C30: the require-SSL query is made for a Cloud SQL database only; after
\* it, AppendGCPClientCert is called if and only if the query reported
\* that SSL is required, and the config carries the certificate if and
\* only if that call succeeded; an error of the query other than access
\* denied aborts the connection; with an access-denied error the engine
\* goes on to connect without a certificate; a failure to attach the
\* certificate aborts the connection.
C30_CloudSQLClientCert ==
    cloud # NoValue =>
    LET q == cloud.requireSSL
        certCalled == Count(calls, "AppendGCPClientCert") > 0
    IN /\ sessionCtx.Database.Type # "gcp" =>
             ~RequireSSLQueried /\ ~certCalled /\ ~ClientCertAttached
       /\ ~RequireSSLQueried => ~certCalled /\ ~ClientCertAttached
       /\ RequireSSLQueried =>
             /\ certCalled <=> q.value
             /\ ClientCertAttached <=> (q.value /\ cloud.certErr = nil)
             /\ (q.err # nil /\ ~IsAccessDenied(q.err)) =>
                   ConfigAbortedWith(q.err)
             /\ (q.err # nil /\ IsAccessDenied(q.err)) =>
                   /\ ~certCalled
                   /\ config # NoValue
                   /\ config.TLSConfig.Certificates = <<>>
                   /\ Count(calls, "ConnectConfig") = 1
             /\ (q.value /\ cloud.certErr # nil) =>
                   ConfigAbortedWith(cloud.certErr)

\* The instance requires SSL and the engine connected with the ephemeral
\* certificate in its config.
C30_Witness ==
    /\ cloud # NoValue
    /\ RequireSSLQueried
    /\ cloud.requireSSL.value
    /\ ClientCertAttached
    /\ pc = "makeClientReady"
    /\ backend = "open"

\* C31: when HandleConnection has returned, every backend connection the
\* engine opened in the run has been closed by the engine.
C31_BackendClosedOnReturn ==
    pc = "done" => backend \in {"none", "closed"}

\* C32: the session-end event is the last audit event of the session: no
\* event of the client-to-backend pump follows it.
C32_SessionEndIsLastEvent ==
    \A i \in DOMAIN audit : IsSessionEnd(audit[i]) => i = Len(audit)

\* C33: when HandleConnection returns after relaying, the backend
\* connection is closed first, the session-end event is emitted next and
\* Deactivate is called last, so Deactivate is never called while the
\* backend connection of the session is open; all three have happened when
\* it has returned.
C33_CleanupOrderAfterRelay ==
    /\ [](PumpsStarted =>
            /\ Count(calls, "Deactivate") > 0 =>
                  /\ backend = "closed"
                  /\ Count(audit, SessionEndEvent) = 1
            /\ Count(audit, SessionEndEvent) > 0 =>
                  /\ backend = "closed"
                  /\ Count(calls, "serverConn.Close") = 1
            /\ pc = "done" =>
                  /\ Count(calls, "serverConn.Close") = 1
                  /\ Count(audit, SessionEndEvent) = 1
                  /\ Count(calls, "Deactivate") = 1
                  /\ Last(calls) = "Deactivate")
    /\ [][ PumpsStarted =>
            /\ Count(calls', "serverConn.Close") > Count(calls, "serverConn.Close")
                  => /\ Count(audit, SessionEndEvent) = 0
                     /\ Count(calls, "Deactivate") = 0
            /\ Count(audit', SessionEndEvent) > Count(audit, SessionEndEvent)
                  => /\ backend = "closed"
                     /\ Count(calls, "Deactivate") = 0
            /\ Count(calls', "Deactivate") > Count(calls, "Deactivate")
                  => /\ backend = "closed"
                     /\ Count(audit, SessionEndEvent) = 1 ]_vars

\* HandleConnection has returned after relaying, with the connection
\* closed, the session ended and the user deactivated.
C33_Witness ==
    /\ PumpsStarted
    /\ pc = "done"
    /\ backend = "closed"
    /\ Count(audit, SessionEndEvent) = 1
    /\ Last(calls) = "Deactivate"

\* The ready-for-query frame makeClientReady sends last.
IsReadyForQuery(m) == m.type = "ReadyForQuery"

\* C34: a run emits at most one successful session-start event and at most
\* one session-end event, and when it has returned it has emitted the one
\* if and only if it has emitted the other; the successful session-start
\* event is emitted with the ready-for-query frame as the last frame sent
\* to the client and before either pump has forwarded a frame.
C34_SessionEndIffSuccessfulStart ==
    /\ [](/\ Len(StartedEvents) <= 1
          /\ Count(audit, SessionEndEvent) <= 1
          /\ pc = "done" =>
                (Count(audit, SessionEndEvent) = 1 <=> Len(StartedEvents) = 1)
          /\ Len(StartedEvents) = 1 =>
                SelectSeq(toClient, IsReadyForQuery) # <<>>
          /\ (~CancelPath /\ (toServer # <<>>
                               \/ SelectSeq(toClient, IsRelayedFrame) # <<>>))
                => Len(StartedEvents) = 1)
    /\ [][ Len(SelectSeq(audit', LAMBDA e : e = SessionStartEvent(nil)))
              > Len(StartedEvents) =>
                /\ toClient # <<>>
                /\ IsReadyForQuery(Last(toClient))
                /\ toServer = <<>>
                /\ SelectSeq(toClient, IsRelayedFrame) = <<>>
                /\ cpc = "idle"
                /\ spc = "idle" ]_vars

\* A run that relayed a frame in each direction has returned with one
\* successful session-start event and one session-end event.
C34_Witness ==
    /\ pc = "done"
    /\ Len(StartedEvents) = 1
    /\ Count(audit, SessionEndEvent) = 1
    /\ toServer # <<>>
    /\ SelectSeq(toClient, IsRelayedFrame) # <<>>

\* connect returned an error to HandleConnection (lines 317-321).
ConnectFailed ==
    /\ ~CancelPath
    /\ pc \in {"deferring", "done"}
    /\ Count(calls, "getConnectConfig") = 1
    /\ hijackedConn = NoValue

\* C35: when connect fails, HandleConnection returns the error with no
\* audit event emitted in the run, neither session-start nor session-end,
\* with no frame sent to the client (the client gets nothing but the error
\* response SendError writes once HandleConnection has returned) and with
\* no pump started.
C35_FailedConnectLeavesNoRecord ==
    ConnectFailed =>
        /\ ret # NoValue
        /\ ret # nil
        /\ audit = <<>>
        /\ SelectSeq(toClient, LAMBDA m : ~IsErrorResponse(m)) = <<>>
        /\ pc # "done" => toClient = <<>>
        /\ Count(calls, "Construct") = 0
        /\ cpc = "idle"
        /\ spc = "idle"

\* HandleConnection has returned the converted error of a failed connection
\* attempt.
C35_Witness ==
    /\ ConnectFailed
    /\ pc = "done"
    /\ Count(calls, "ConnectConfig") = 1
    /\ ret = ConvertConnectError(Err("connect"))
    /\ audit = <<>>
    /\ toClient = <<>>

\* C36: on the cancel path HandleConnection calls neither Activate nor
\* Deactivate, defers nothing, sends no frame to the client (the client
\* gets nothing but the error response SendError writes once
\* HandleConnection has returned), emits no successful session-start and no
\* session-end event, and starts no pump.
C36_CancelPathTouchesNothingElse ==
    CancelPath =>
        /\ Count(calls, "Activate") = 0
        /\ Count(calls, "Deactivate") = 0
        /\ Count(calls, "getConnectConfig") = 0
        /\ defers = <<>>
        /\ lease = "none"
        /\ SelectSeq(toClient, LAMBDA m : ~IsErrorResponse(m)) = <<>>
        /\ pc # "done" => toClient = <<>>
        /\ StartedEvents = <<>>
        /\ Count(audit, SessionEndEvent) = 0
        /\ cpc = "idle"
        /\ spc = "idle"
        /\ clientErrCh = <<>>
        /\ serverErrCh = <<>>

\* HandleConnection has forwarded a cancel request and returned nil.
C36_Witness ==
    /\ CancelPath
    /\ pc = "done"
    /\ ret = nil
    /\ Len(toServer) = 2
    /\ Last(toServer) = cancelReq
    /\ toClient = <<>>
    /\ audit = <<>>

\* C37: InitializeConnection makes one read of the client, the startup
\* frame, and no write: nothing is sent to the client or the database and
\* no later step reads a startup frame or sets the cancel request; when the
\* frame is a cancel request the session is left as it was and the request
\* is recorded; when it is a startup message no cancel request is recorded.
C37_OneStartupFrameNoWrite ==
    [][ /\ pc = "Created" =>
            /\ toClient' = <<>>
            /\ toServer' = <<>>
            /\ fromClient' = <<>>
            /\ pc' \in {"checkAccess", "initFailed"}
            /\ startupFrame' = NoValue =>
                  /\ pc' = "initFailed"
                  /\ sessionCtx' = sessionCtx
                  /\ cancelReq' = NoValue
            /\ (startupFrame' # NoValue
                  /\ startupFrame'.type = "CancelRequest") =>
                  /\ pc' = "checkAccess"
                  /\ sessionCtx' = sessionCtx
                  /\ cancelReq' = startupFrame'
            /\ (startupFrame' # NoValue
                  /\ startupFrame'.type = "StartupMessage") =>
                  /\ pc' = "checkAccess"
                  /\ cancelReq' = NoValue
        /\ pc # "Created" =>
            /\ startupFrame' = startupFrame
            /\ cancelReq' = cancelReq ]_vars

\* InitializeConnection has read a cancel request: it is recorded and the
\* session is as the service built it.
C37_Witness ==
    /\ pc = "checkAccess"
    /\ startupFrame # NoValue
    /\ startupFrame.type = "CancelRequest"
    /\ cancelReq = startupFrame
    /\ sessionCtx = NewSession(sessionCtx.AutoCreateUser)
    /\ toClient = <<>>

\* The client-to-backend pump holds a close frame.
HoldsCloseFrame == cmsg # NoValue /\ cmsg.type = "Close"

\* C38: for a close frame the pump emits one close event that names the
\* prepared statement when the object type is 'S', one that names the
\* portal when it is 'P', and no event for any other object type; in all
\* three cases it goes on to send the frame, and the frame it sends to the
\* backend is the frame it read.
C38_CloseFrameAuditAndForward ==
    [][ /\ (cpc = "switch" /\ HoldsCloseFrame /\ cpc' # cpc) =>
              /\ cpc' = "send"
              /\ cmsg' = cmsg
              /\ toServer' = toServer
              /\ cmsg.ObjectType = "S" =>
                    audit' = Append(audit, [kind |-> "close",
                                            StatementName |-> cmsg.Name,
                                            PortalName |-> ""])
              /\ cmsg.ObjectType = "P" =>
                    audit' = Append(audit, [kind |-> "close",
                                            StatementName |-> "",
                                            PortalName |-> cmsg.Name])
              /\ cmsg.ObjectType \notin {"S", "P"} => audit' = audit
        /\ (cpc = "send" /\ HoldsCloseFrame /\ cpc' = "receive") =>
              /\ cmsg = Last(fromClient)
              /\ toServer' = Append(toServer, cmsg)
              /\ audit' = audit ]_vars

\* A close of a statement, of a portal and of an unknown object were all
\* forwarded, and the first two were audited.
C38_Witness ==
    /\ Len(toServer) = 3
    /\ toServer = fromClient
    /\ \A i \in 1..3 : toServer[i].type = "Close"
    /\ toServer[1].ObjectType = "S"
    /\ toServer[2].ObjectType = "P"
    /\ toServer[3].ObjectType = "X"
    /\ PumpEvents(audit) =
          << [kind |-> "close", StatementName |-> "s1", PortalName |-> ""],
             [kind |-> "close", StatementName |-> "", PortalName |-> "p1"] >>

\* C39: when server.Receive has failed, the backend-to-client pump writes
\* nil to its channel if the server connection is closed when it looks, and
\* the read error otherwise; when client.Send has failed it writes the
\* error of the send, never nil.
C39_ServerPumpCompletionValue ==
    [][ /\ (spc = "receiveFailed" /\ spc' = "stopped") =>
              /\ serr # nil
              /\ Len(serverErrCh') = Len(serverErrCh) + 1
              /\ backend = "closed" => Last(serverErrCh') = nil
              /\ backend # "closed" => Last(serverErrCh') = serr
        /\ (spc = "send" /\ spc' = "stopped") =>
              /\ Len(serverErrCh') = Len(serverErrCh) + 1
              /\ Last(serverErrCh') = Err("write")
              /\ Last(serverErrCh') # nil
        /\ (spc = "receive" /\ spc' = "receiveFailed") =>
              /\ serr' # nil
              /\ serverErrCh' = serverErrCh ]_vars

\* The read failed after HandleConnection closed the server connection, and
\* the pump reported nil.
C39_Witness ==
    /\ spc = "stopped"
    /\ backend = "closed"
    /\ serr = EOF
    /\ serverErrCh = <<nil>>
    /\ pc = "done"

====
